---- MODULE Spec2Model ----
(***************************************************************************)
(* VoiceFlow: the job orchestration pipeline.                              *)
(*                                                                         *)
(*   api-gateway      transcribe_audio, synthesize_text, get_task_result   *)
(*   orchestrator     process_pipeline (Celery task, acks_late,            *)
(*                    max_retries = 3) and _schedule_cleanup               *)
(*   stt-/tts-service the two backends the orchestrator calls over HTTP    *)
(*   cleanup-worker   listen_for_cleanup_events, process_cleanup_task      *)
(*                                                                         *)
(* The Celery broker is a bag of messages, the Celery result backend is    *)
(* the task store, MinIO is two buckets, Redis holds the cleanup keys.     *)
(***************************************************************************)
EXTENDS Integers, Sequences, FiniteSets, Bags, TLC

\* ---------------------------------------------------------------- bounds
MaxTasks == 1       \* task ids the gateway hands out
MaxCrashes == 1     \* worker crashes (each one redelivers the unacked item)
MaxTicks == 12      \* steps of the clock, of TickSeconds each
MaxPolls == 2       \* iterations a poller's budget allows (timeout / interval)
MaxLen == 5         \* characters of a URL handed to extract_filename_from_url

\* ------------------------------------------------------ program constants
max_retries == 3    \* @app.task(bind=True, max_retries=3, ...)
CLEANUP_TTL_SECONDS == 3600
expires == 900      \* timedelta(minutes=15)
TickSeconds == expires \div 3    \* the clock advances in steps of 5 minutes

MINIO_ENDPOINT == "minio:9000"
MINIO_BUCKET_UNPROCESSED == "unprocessed"
MINIO_BUCKET_PROCESSED == "processed"

V2T == "v2t"
T2V == "t2v"

PENDING == "PENDING"
SUCCESS == "SUCCESS"
FAILED == "FAILED"

\* ------------------------------------------------------------ input sets
\* uuid4 values: fresh on every call, digits only here
TaskIds == {ToString(i) : i \in 1..(MaxTasks + 1)}

\* audio_file.filename and the uploaded bytes ("" is an empty upload)
FileNames == {"test_audio.wav", "input.wav"}
AudioBytes == {"", "RIFF"}

\* the text form field of /v1/synthesize
Texts == {"", " ", " hi"}

\* Python's None, an absent dict and an absent message
None == "None"
NoResult == [none |-> TRUE]
NoMsg == [id |-> "", mode |-> "", input_data |-> NoResult, retries |-> 0]

\* ------------------------------------------------------ string functions
\* str.strip(): leading and trailing blanks removed
RECURSIVE lstrip(_)
lstrip(s) ==
    IF Len(s) > 0 /\ SubSeq(s, 1, 1) = " " THEN lstrip(SubSeq(s, 2, Len(s))) ELSE s

RECURSIVE rstrip(_)
rstrip(s) ==
    IF Len(s) > 0 /\ SubSeq(s, Len(s), Len(s)) = " "
    THEN rstrip(SubSeq(s, 1, Len(s) - 1)) ELSE s

strip(s) == rstrip(lstrip(s))

\* the index of the first occurrence of sub in s at or after i, 0 if none
RECURSIVE find(_, _, _)
find(s, sub, i) ==
    IF i + Len(sub) - 1 > Len(s) THEN 0
    ELSE IF SubSeq(s, i, i + Len(sub) - 1) = sub THEN i
    ELSE find(s, sub, i + 1)

\* Python's `sub in s`
contains(s, sub) == find(s, sub, 1) # 0

\* s.startswith(prefix)
startswith(s, prefix) ==
    Len(s) >= Len(prefix) /\ SubSeq(s, 1, Len(prefix)) = prefix

\* (mutant of split_last: s.split(sep, 1)[0], what precedes the first sep)
split_first(s, sep) ==
    LET i == find(s, sep, 1)
    IN  IF i = 0 THEN s ELSE SubSeq(s, 1, i - 1)

\* s.split(sep, 1)[-1]: what follows the first sep, all of s when there is none
split_last(s, sep) ==
    LET i == find(s, sep, 1)
    IN  IF i = 0 THEN s ELSE SubSeq(s, i + Len(sep), Len(s))

\* s.split(sep)[0]: what precedes the first sep, all of s when there is none
split_0(s, sep) ==
    LET i == find(s, sep, 1)
    IN  IF i = 0 THEN s ELSE SubSeq(s, 1, i - 1)

\* the index of the last occurrence of sub in s at or before i, 0 if none
RECURSIVE rfind(_, _, _)
rfind(s, sub, i) ==
    IF i < 1 THEN 0
    ELSE IF i + Len(sub) - 1 <= Len(s) /\ SubSeq(s, i, i + Len(sub) - 1) = sub
    THEN i
    ELSE rfind(s, sub, i - 1)

\* (mutant of split_neg1: s.split(sep, 1)[-1], what follows the first sep)
split_neg1_once(s, sep) ==
    LET i == find(s, sep, 1)
    IN  IF i = 0 THEN s ELSE SubSeq(s, i + Len(sep), Len(s))

\* s.split(sep)[-1]: what follows the last sep, all of s when there is none
split_neg1(s, sep) ==
    LET i == rfind(s, sep, Len(s))
    IN  IF i = 0 THEN s ELSE SubSeq(s, i + Len(sep), Len(s))

\* voiceflow.utils.extract_filename_from_url
extract_filename_from_url(audio_url) ==
    LET url_without_params == split_0(audio_url, "?")
        filename == split_neg1(url_without_params, "/")
    IN  IF ~contains(filename, ".") THEN filename \o ".wav" ELSE filename

\* the strings of at most n characters of an alphabet
RECURSIVE strings(_, _)
strings(alphabet, n) ==
    IF n = 0 THEN {""}
    ELSE LET shorter == strings(alphabet, n - 1)
         IN  shorter \cup {s \o c : s \in shorter, c \in alphabet}

\* the URLs extract_filename_from_url is applied to
Urls == strings({"a", "/", "?", "."}, MaxLen)

\* ------------------------------------------------------------- the state
VARIABLES
    nextId,        \* number of uuid4 values drawn so far
    sent,          \* the messages the gateway has passed to send_task
    uploaded,      \* the <<object name, bytes>> the gateway has uploaded
    queue,         \* the broker queue 'orchestrator': a bag of messages
    store,         \* the Celery result backend: task id -> task meta
    unprocessed,   \* bucket: a set of <<object name, bytes>>
    processed,     \* bucket: a set of <<object name, bytes>>
    redis,         \* Redis db 0: a set of <<key, value>>
    expiredKeys,   \* keys whose TTL has elapsed so far
    events,        \* __keyevent@0__:expired messages the listener has not read
    listening,     \* the cleanup worker is subscribed
    deleteLog,     \* remove_object calls of the last process_cleanup_task
    pc,            \* the worker's position in process_pipeline
    request,       \* the message the worker holds unacknowledged
    final_result,  \* process_pipeline's local final_result
    crashes,       \* worker crashes so far
    reply,         \* what the last submit call answered
    ttl,           \* Redis: a set of <<key, the time its time to live ends>>
    now,           \* the time, in seconds
    held,          \* the last answer of GET /v1/tasks a client keeps
    poller,        \* the client-side poller: its function, job, loop count
                   \* and outcome
    quota,         \* how many task ids the gateway may draw in this run
    missed,        \* expired messages published while nobody was subscribed:
                   \* <<key, the job's file list at that moment,
                   \*   the stored objects at that moment>>
    health,        \* the last call of the client's health_check
    call           \* the last call of a function of the client library

vars == <<nextId, sent, uploaded, queue, store, unprocessed, processed, redis,
          expiredKeys, events, listening, deleteLog, pc, request,
          final_result, crashes, reply, ttl, now, held, poller, quota,
          missed, health, call>>

gatewayVars == <<nextId, sent, uploaded, reply, quota>>
clientVars == <<now, held, poller>>
libVars == <<health, call>>

\* the task ids a submit endpoint has returned
returned == {msg.id : msg \in sent}
bucketVars == <<unprocessed, processed>>
cleanupVars == <<redis, ttl, expiredKeys, events, listening, deleteLog,
                 missed>>
workerVars == <<pc, request, final_result, crashes>>

\* ----------------------------------------------------------- task store
\* A key the backend does not hold reads as state PENDING (AsyncResult).
NoMeta == [status |-> "PENDING", result |-> NoResult]

\* store_result of the key/value backend: a task already marked SUCCESS is
\* not overwritten
store_result(st, id, status, result) ==
    IF st[id].status = "SUCCESS" THEN st
    ELSE [st EXCEPT ![id] = [status |-> status, result |-> result]]

\* -------------------------------------------------------------- buckets
\* put_object overwrites the object of that name; remove_object of a name
\* the bucket does not hold removes nothing and does not raise
object_names(bucket) == {o[1] : o \in bucket}
put_object(bucket, object_name, data) ==
    {o \in bucket : o[1] # object_name} \cup {<<object_name, data>>}
remove_object(bucket, object_name) == {o \in bucket : o[1] # object_name}
get_object(bucket, object_name) ==
    (CHOOSE o \in bucket : o[1] = object_name)[2]

\* ---------------------------------------------------------------- Redis
files_key(task_id) == "files:" \o task_id
cleanup_trigger_key(task_id) == "cleanup:" \o task_id

exists(db, key) == \E kv \in db : kv[1] = key
\* LRANGE key 0 -1: the empty list when the key is absent
lrange(db, key) ==
    IF exists(db, key) THEN (CHOOSE kv \in db : kv[1] = key)[2] ELSE <<>>
\* RPUSH key v1 v2 ...: appends to the list, creating it when absent
rpush(db, key, values) ==
    {kv \in db : kv[1] # key} \cup {<<key, lrange(db, key) \o values>>}
\* SETEX key ttl "1": sets the key and (re)starts its time to live
setex(db, key) == {kv \in db : kv[1] # key} \cup {<<key, "1">>}
\* DEL key
delete(db, key) == {kv \in db : kv[1] # key}

\* ------------------------------------------------- GET /v1/tasks/{id}
\* (mutant of TaskResultResponse: error_message defaults to a text)
TaskResultResponse_error_default(task_id, status, transcribed_text, audio_url, error_message) ==
    [task_id |-> task_id, http |-> 200, status |-> status,
     transcribed_text |-> transcribed_text, audio_url |-> audio_url,
     error_message |-> IF error_message = None THEN "Task failed"
                       ELSE error_message]

\* TaskResultResponse; http = 500 stands for an exception that left the
\* handler (FastAPI answers "Internal Server Error")
TaskResultResponse(task_id, status, transcribed_text, audio_url, error_message) ==
    [task_id |-> task_id, http |-> 200, status |-> status,
     transcribed_text |-> transcribed_text, audio_url |-> audio_url,
     error_message |-> error_message]
InternalServerError(task_id) ==
    [task_id |-> task_id, http |-> 500, status |-> None,
     transcribed_text |-> None, audio_url |-> None, error_message |-> None]

\* AsyncResult.ready(), failed(), successful()
\* (mutant of ready: RETRY counted among the ready states)
ready_with_retry(meta) == meta.status \in {"SUCCESS", "FAILURE", "REVOKED", "RETRY"}
ready(meta) == meta.status \in {"SUCCESS", "FAILURE", "REVOKED"}
failed(meta) == meta.status = "FAILURE"
successful(meta) == meta.status = "SUCCESS"

\* The result of a task in state FAILURE or RETRY is the exception instance
\* the backend rebuilt; every other result is the dict the task returned.
is_exception(result) == "exc_type" \in DOMAIN result
truthy(result) == result # NoResult

\* (mutant of presigned_get_object: the date is not the time of the call)
presigned_get_object_undated(bucket_name, object_name, utcnow) ==
    "http://" \o MINIO_ENDPOINT \o "/" \o bucket_name \o "/" \o object_name
        \o "?X-Amz-Date=" \o ToString(0)
        \o "&X-Amz-Expires=" \o ToString(expires)

\* minio_client.presigned_get_object(bucket, name, expires=15 min): the
\* signature covers the time of the call (X-Amz-Date) and the validity
presigned_get_object(bucket_name, object_name, utcnow) ==
    "http://" \o MINIO_ENDPOINT \o "/" \o bucket_name \o "/" \o object_name
        \o "?X-Amz-Date=" \o ToString(utcnow)
        \o "&X-Amz-Expires=" \o ToString(expires)

\* the branch get_task_result takes for a task meta
task_status(meta) ==
    IF ~ready(meta) THEN PENDING
    ELSE IF failed(meta) THEN FAILED
    ELSE IF ~successful(meta) THEN FAILED
    ELSE SUCCESS

get_task_result(st, task_id, utcnow) ==
    LET task == st[task_id]
        result == task.result
    IN  IF ~ready(task)
        THEN TaskResultResponse(task_id, PENDING, None, None, None)
        ELSE IF failed(task)
        THEN IF truthy(task.result)
             THEN \* task.info.get('error', 'Task failed')
                  IF is_exception(task.result)
                  THEN InternalServerError(task_id)  \* AttributeError
                  ELSE TaskResultResponse(task_id, FAILED, None, None,
                           IF "error" \in DOMAIN task.result
                           THEN task.result.error ELSE "Task failed")
             ELSE TaskResultResponse(task_id, FAILED, None, None, "Task failed")
        ELSE IF ~successful(task)
        THEN TaskResultResponse(task_id, FAILED, None, None,
                                "Task was not successful")
        ELSE TaskResultResponse(task_id, SUCCESS,
                 IF "transcribed_text" \in DOMAIN result
                 THEN result.transcribed_text ELSE None,
                 IF "output_object_name" \in DOMAIN result
                 THEN split_last(presigned_get_object(MINIO_BUCKET_PROCESSED,
                                     result.output_object_name, utcnow),
                                 MINIO_ENDPOINT)
                 ELSE None,
                 None)

\* ------------------------------------------------------- submit replies
\* What a submit call answers: TranscriptionResponse / SynthesisResponse
\* (200), an HTTPException, or an exception the client library raises
\* before any request is sent (http = 0).
SubmitResponse(task_id, status) ==
    [http |-> 200, task_id |-> task_id, status |-> status, detail |-> None,
     raised |-> None]
HTTPException(status_code, detail) ==
    [http |-> status_code, task_id |-> None, status |-> None,
     detail |-> detail, raised |-> None]
ClientRaised(exc_type, message) ==
    [http |-> 0, task_id |-> None, status |-> None, detail |-> message,
     raised |-> exc_type]
NoReply == [http |-> 0, task_id |-> None, status |-> None, detail |-> None,
            raised |-> None]

\* ------------------------------------------------------------ clients
\* no answer kept, no poller running
NoHeld == [url |-> None, at |-> 0]
NoPoller == [fn |-> None, task_id |-> None, budget |-> 0, polls |-> 0,
             queries |-> 0, outcome |-> NoResult]
NoCall == [fn |-> None]

\* ------------------------------------------------------------- Init
InitState ==
    /\ nextId = 0
    /\ sent = {}
    /\ uploaded = {}
    /\ queue = EmptyBag
    /\ store = [id \in TaskIds |-> NoMeta]
    /\ unprocessed = {}
    /\ processed = {}
    /\ redis = {}
    /\ expiredKeys = {}
    /\ events = <<>>
    /\ listening = TRUE
    /\ deleteLog = <<>>
    /\ pc = "idle"
    /\ request = NoMsg
    /\ final_result = NoResult
    /\ crashes = 0
    /\ reply = NoReply
    /\ ttl = {}
    /\ now = 0
    /\ held = NoHeld
    /\ poller = NoPoller
    /\ missed = {}
    /\ health = NoCall
    /\ call = NoCall

\* the gateway hands out MaxTasks task ids
Init == InitState /\ quota = MaxTasks

\* the gateway hands out one task id more: two jobs for MaxTasks = 1
InitPair == InitState /\ quota = MaxTasks + 1

\* ------------------------------------------------------- api-gateway
\* (mutant of send_task: the message is published twice)
send_task_twice(q, msg) == q (+) SetToBag({msg}) (+) SetToBag({msg})

\* celery_app.send_task('tasks.process_pipeline', args, task_id): one message
\* on the queue
send_task(q, msg) == q (+) SetToBag({msg})

\* POST /v1/transcribe
v2t_message(task_id, input_object_name) ==
    [id |-> task_id, mode |-> V2T,
     input_data |-> [input_object_name |-> input_object_name], retries |-> 0]

\* (mutant of transcribe_audio: the except clause does not raise, the task
\* is sent although the upload failed)
transcribe_audio_upload_unchecked(filename, data, upload_ok) ==
    /\ nextId < quota
    /\ LET task_id == ToString(nextId + 1)
           input_object_name == task_id \o "_" \o filename
           msg == v2t_message(task_id, input_object_name)
       IN  /\ nextId' = nextId + 1
           /\ IF upload_ok
              THEN /\ unprocessed' = put_object(unprocessed, input_object_name, data)
                   /\ uploaded' = uploaded \cup {<<input_object_name, data>>}
              ELSE UNCHANGED <<unprocessed, uploaded>>
           /\ queue' = send_task(queue, msg)
           /\ sent' = sent \cup {msg}
           /\ reply' = SubmitResponse(task_id, PENDING)
    /\ UNCHANGED <<libVars, quota, store, processed, cleanupVars, workerVars,
                   clientVars>>

\* (mutant of transcribe_audio: the upload is stored under the client's
\* file name alone)
transcribe_audio_unprefixed(filename, data, upload_ok) ==
    /\ nextId < quota
    /\ LET task_id == ToString(nextId + 1)
           input_object_name == filename
           msg == v2t_message(task_id, input_object_name)
       IN  /\ nextId' = nextId + 1
           /\ IF upload_ok
              THEN /\ unprocessed' = put_object(unprocessed, input_object_name, data)
                   /\ uploaded' = uploaded \cup {<<input_object_name, data>>}
                   /\ queue' = send_task(queue, msg)
                   /\ sent' = sent \cup {msg}
                   /\ reply' = SubmitResponse(task_id, PENDING)
              ELSE /\ reply' = HTTPException(500, "Failed to upload file")
                   /\ UNCHANGED <<unprocessed, uploaded, queue, sent>>
    /\ UNCHANGED <<libVars, quota, store, processed, cleanupVars, workerVars,
                   clientVars>>

transcribe_audio(filename, data, upload_ok) ==
    /\ nextId < quota
    /\ LET task_id == ToString(nextId + 1)
           input_object_name == task_id \o "_" \o filename
           msg == v2t_message(task_id, input_object_name)
       IN  /\ nextId' = nextId + 1
           /\ IF upload_ok
              THEN /\ unprocessed' = put_object(unprocessed, input_object_name, data)
                   /\ uploaded' = uploaded \cup {<<input_object_name, data>>}
                   /\ queue' = send_task(queue, msg)
                   /\ sent' = sent \cup {msg}
                   /\ reply' = SubmitResponse(task_id, PENDING)
              ELSE /\ reply' = HTTPException(500, "Failed to upload file")
                   /\ UNCHANGED <<unprocessed, uploaded, queue, sent>>
    /\ UNCHANGED <<libVars, quota, store, processed, cleanupVars, workerVars,
                   clientVars>>

\* Work items no endpoint of the gateway builds: an unsupported mode, or
\* input_data without the key the mode reads.
MalformedItems ==
    {[mode |-> "v2v", input_data |-> [text |-> "hi"]],
     [mode |-> V2T, input_data |-> [text |-> "hi"]],
     [mode |-> V2T, input_data |-> [object_name |-> "1_input.wav"]],
     [mode |-> T2V, input_data |-> [input_object_name |-> "1_input.wav"]]}

\* another producer sends such an item to tasks.process_pipeline
SendMalformed(item) ==
    /\ nextId < quota
    /\ LET task_id == ToString(nextId + 1)
           msg == [id |-> task_id, mode |-> item.mode,
                   input_data |-> item.input_data, retries |-> 0]
       IN  /\ nextId' = nextId + 1
           /\ queue' = send_task(queue, msg)
           /\ sent' = sent \cup {msg}
    /\ UNCHANGED <<libVars, quota, uploaded, reply, store, bucketVars,
                   cleanupVars, workerVars, clientVars>>

\* POST /v1/synthesize
t2v_message(task_id, text) ==
    [id |-> task_id, mode |-> T2V, input_data |-> [text |-> text], retries |-> 0]

\* (mutant of synthesize_text: no check of the text, which is sent as it is)
synthesize_text_unchecked(text) ==
    /\ nextId < quota
    /\ LET task_id == ToString(nextId + 1)
           msg == t2v_message(task_id, text)
       IN  /\ nextId' = nextId + 1
           /\ queue' = send_task(queue, msg)
           /\ sent' = sent \cup {msg}
           /\ reply' = SubmitResponse(task_id, PENDING)
    /\ UNCHANGED <<libVars, quota, uploaded, store, bucketVars, cleanupVars,
                   workerVars,
                   clientVars>>

synthesize_text(text) ==
    /\ IF strip(text) = ""
       THEN /\ reply' = HTTPException(400, "Text content is required")
            /\ UNCHANGED <<nextId, queue, sent>>
       ELSE /\ nextId < quota
            /\ LET task_id == ToString(nextId + 1)
                   msg == t2v_message(task_id, strip(text))
               IN  /\ nextId' = nextId + 1
                   /\ queue' = send_task(queue, msg)
                   /\ sent' = sent \cup {msg}
                   /\ reply' = SubmitResponse(task_id, PENDING)
    /\ UNCHANGED <<libVars, quota, uploaded, store, bucketVars, cleanupVars,
                   workerVars,
                   clientVars>>

\* AsyncVoiceFlowClient.synthesize up to the submit: a blank text raises
\* before any request; any other text is posted as it is
synthesize(text) ==
    IF strip(text) = ""
    THEN /\ reply' = ClientRaised("VoiceFlowError", "Text cannot be empty")
         /\ UNCHANGED <<libVars, quota, nextId, sent, uploaded, queue, store,
                        bucketVars,
                        cleanupVars, workerVars, clientVars>>
    ELSE synthesize_text(text)

\* GET /v1/tasks/{task_id}: a read, answered with get_task_result(store, id, now)
GetResult(task_id) ==
    /\ get_task_result(store, task_id, now).task_id = task_id
    /\ UNCHANGED vars

\* ------------------------------------------------------------ backends
\* What the outside world does to one backend call.
Outcomes == {"ok", "infer_fail", "storage_fail", "unreachable", "timeout"}

\* an HTTP response as httpx sees it; is_json: response.json() parses
HttpResponse(status_code, is_json, body) ==
    [status_code |-> status_code, is_json |-> is_json, body |-> body]
\* no response at all: httpx raises a RequestError
NoHttpResponse == HttpResponse(0, FALSE, NoResult)

\* Whisper on the decoded audio; ffmpeg cannot decode an empty input
whisper(audio_bytes) == IF audio_bytes = "RIFF" THEN "hello" ELSE ""
\* Chatterbox: the raw audio of a text
chatterbox(text) == "RIFF"

\* stt-service POST /v1/transcribe.  When get_object raises, the finally
\* clause reads the unbound audio_object: the HTTPException(404) is replaced
\* by an UnboundLocalError and FastAPI answers 500 with a plain-text body.
stt_transcribe_audio(bucket, input_object_name, outcome) ==
    IF outcome \in {"unreachable", "timeout"} THEN NoHttpResponse
    ELSE IF input_object_name \notin object_names(bucket) \/ outcome = "storage_fail"
    THEN HttpResponse(500, FALSE, "Internal Server Error")
    ELSE IF outcome = "infer_fail" \/ get_object(bucket, input_object_name) = ""
    THEN HttpResponse(503, TRUE, [detail |-> "Triton inference failed"])
    ELSE HttpResponse(200, TRUE,
             [text |-> whisper(get_object(bucket, input_object_name))])

\* tts-service POST /v1/synthesize: the response
output_object_name_of(task_id) == task_id \o ".wav"
tts_synthesize_speech(task_id, text, outcome) ==
    IF outcome \in {"unreachable", "timeout"} THEN NoHttpResponse
    ELSE IF outcome = "infer_fail"
    THEN HttpResponse(503, TRUE, [detail |-> "Triton inference failed"])
    ELSE IF outcome = "storage_fail"
    THEN HttpResponse(500, TRUE, [detail |-> "Failed to upload audio"])
    ELSE HttpResponse(200, TRUE,
             [output_object_name |-> output_object_name_of(task_id)])

\* tts-service POST /v1/synthesize: the processed bucket afterwards.  With
\* "timeout" the service finished but the caller stopped waiting.
tts_put_object(bucket, task_id, text, outcome) ==
    IF outcome \in {"ok", "timeout"}
    THEN put_object(bucket, output_object_name_of(task_id), chatterbox(text))
    ELSE bucket

\* ------------------------------------------------------- orchestrator
exception(exc_type, exc_message) ==
    [exc_type |-> exc_type, exc_message |-> exc_message]

\* The try block of process_pipeline, lines 73-96, up to final_result:
\* [final_result |-> dict] or [raised |-> exception, response |-> ...]
Returned(result) == [kind |-> "return", final_result |-> result]
Raised(exc, resp) == [kind |-> "raise", exc |-> exc, response |-> resp]

\* client.post(...) and response.raise_for_status(): the exception raised,
\* for a response that makes them raise
post_raises(resp) == resp = NoHttpResponse \/ resp.status_code >= 400
post_raised(resp) ==
    IF resp = NoHttpResponse
    THEN Raised(exception("RequestError", "request failed"), resp)
    ELSE Raised(exception("HTTPStatusError", "status error"), resp)

\* (mutant of transcribed_result: the transcription also names an output
\* object)
transcribed_result_with_audio(text) == [transcribed_text |-> text, output_object_name |-> "out.wav"]
transcribed_result(text) == [transcribed_text |-> text]
synthesized_result(name) == [output_object_name |-> name]

pipeline_body(task_id, mode, input_data, bucket, outcome) ==
    IF mode = V2T
    THEN IF "input_object_name" \notin DOMAIN input_data
         THEN Raised(exception("ValueError",
                  "input_object_name is required for V2T mode"), NoHttpResponse)
         ELSE LET response == stt_transcribe_audio(bucket,
                                  input_data.input_object_name, outcome)
              IN  IF post_raises(response) THEN post_raised(response)
                  ELSE Returned(transcribed_result(response.body.text))
    ELSE IF mode = T2V
    THEN IF "text" \notin DOMAIN input_data
         THEN Raised(exception("ValueError", "text is required for T2V mode"),
                     NoHttpResponse)
         ELSE LET response == tts_synthesize_speech(task_id, input_data.text,
                                                    outcome)
              IN  IF post_raises(response) THEN post_raised(response)
                  ELSE Returned(synthesized_result(
                                    response.body.output_object_name))
    ELSE Raised(exception("ValueError", "Unsupported mode"), NoHttpResponse)

\* The except clauses, lines 102-107: the exception handed to self.retry, or
\* the exception that leaves the handler before self.retry is reached
\* (e.response.json() on a body that is not JSON).
Retry(exc) == [kind |-> "retry", exc |-> exc]
Propagate(exc) == [kind |-> "raise", exc |-> exc]

\* (mutant of except_clause: a ValueError is not handed to self.retry)
except_clause_value_error_final(raised) ==
    IF raised.exc.exc_type = "ValueError" THEN Propagate(raised.exc)
    ELSE IF raised.exc.exc_type = "HTTPStatusError"
    THEN IF raised.response.is_json
         THEN Retry(exception("Exception",
                  "HTTP Error: " \o raised.response.body.detail))
         ELSE Propagate(exception("JSONDecodeError", "Expecting value"))
    ELSE Retry(raised.exc)

except_clause(raised) ==
    IF raised.exc.exc_type = "HTTPStatusError"
    THEN IF raised.response.is_json
         THEN Retry(exception("Exception",
                  "HTTP Error: " \o raised.response.body.detail))
         ELSE Propagate(exception("JSONDecodeError", "Expecting value"))
    ELSE Retry(raised.exc)

\* (mutant of can_retry: the budget counted as attempts, one retry too few)
can_retry_counting_attempts(msg) == msg.retries + 1 < max_retries

\* Task.retry: a new message with retries + 1, unless the budget is used up
can_retry(msg) == msg.retries < max_retries
\* (mutant of retry_message: the retry counter is not raised)
retry_message_uncounted(msg) == msg
retry_message(msg) == [msg EXCEPT !.retries = @ + 1]

\* The worker takes a message; task_track_started stores STARTED.
Receive ==
    /\ pc = "idle"
    /\ \E msg \in BagToSet(queue) :
        /\ queue' = queue (-) SetToBag({msg})
        /\ request' = msg
        /\ store' = store_result(store, msg.id, "STARTED", NoResult)
    /\ pc' = "started"
    /\ UNCHANGED <<libVars, gatewayVars, clientVars, bucketVars, cleanupVars,
                   final_result, crashes>>

\* (mutant of Invoke: the transcription backend removes the input object
\* once it has read it)
Invoke_consuming(outcome) ==
    /\ pc = "started"
    /\ LET msg == request
           body == pipeline_body(msg.id, msg.mode, msg.input_data, unprocessed,
                                 outcome)
           handled == except_clause(body)
       IN  /\ processed' =
                 IF msg.mode = T2V /\ "text" \in DOMAIN msg.input_data
                 THEN tts_put_object(processed, msg.id, msg.input_data.text, outcome)
                 ELSE processed
           /\ unprocessed' =
                 IF msg.mode = V2T /\ "input_object_name" \in DOMAIN msg.input_data
                 THEN remove_object(unprocessed, msg.input_data.input_object_name)
                 ELSE unprocessed
           /\ IF body.kind = "return"
              THEN /\ final_result' = body.final_result
                   /\ pc' = "scheduling"
                   /\ UNCHANGED <<queue, store>>
              ELSE /\ final_result' = NoResult
                   /\ pc' = "ack"
                   /\ IF handled.kind = "retry" /\ can_retry(msg)
                      THEN /\ queue' = queue (+) SetToBag({retry_message(msg)})
                           /\ store' = store_result(store, msg.id, "RETRY",
                                                    handled.exc)
                      ELSE /\ queue' = queue
                           /\ store' = store_result(store, msg.id, "FAILURE",
                                                    handled.exc)
    /\ UNCHANGED <<libVars, gatewayVars, clientVars, cleanupVars, request,
                   crashes>>

\* process_pipeline up to final_result or to the end of an except clause
Invoke(outcome) ==
    /\ pc = "started"
    /\ LET msg == request
           body == pipeline_body(msg.id, msg.mode, msg.input_data, unprocessed,
                                 outcome)
           handled == except_clause(body)
       IN  /\ processed' =
                 IF msg.mode = T2V /\ "text" \in DOMAIN msg.input_data
                 THEN tts_put_object(processed, msg.id, msg.input_data.text, outcome)
                 ELSE processed
           /\ IF body.kind = "return"
              THEN /\ final_result' = body.final_result
                   /\ pc' = "scheduling"
                   /\ UNCHANGED <<queue, store>>
              ELSE /\ final_result' = NoResult
                   /\ pc' = "ack"
                   /\ IF handled.kind = "retry" /\ can_retry(msg)
                      THEN /\ queue' = queue (+) SetToBag({retry_message(msg)})
                           /\ store' = store_result(store, msg.id, "RETRY",
                                                    handled.exc)
                      ELSE /\ queue' = queue
                           /\ store' = store_result(store, msg.id, "FAILURE",
                                                    handled.exc)
    /\ UNCHANGED <<libVars, gatewayVars, clientVars, unprocessed, cleanupVars,
                   request, crashes>>

\* _schedule_cleanup(task_id, input_data, final_result); an exception of a
\* Redis call is caught and printed
files_to_delete(input_data, result_data) ==
    (IF "input_object_name" \in DOMAIN input_data
     THEN <<input_data.input_object_name>> ELSE <<>>)
    \o (IF "output_object_name" \in DOMAIN result_data
        THEN <<result_data.output_object_name>> ELSE <<>>)

RedisOutcomes == {"ok", "rpush_fails", "setex_fails"}

\* (mutant of schedule_cleanup: nothing is written)
schedule_cleanup_skipped(db, task_id, input_data, result_data, redis_outcome) == db

schedule_cleanup(db, task_id, input_data, result_data, redis_outcome) ==
    LET files == files_to_delete(input_data, result_data)
    IN  IF files = <<>> \/ redis_outcome = "rpush_fails" THEN db
        ELSE IF redis_outcome = "setex_fails"
        THEN rpush(db, files_key(task_id), files)
        ELSE setex(rpush(db, files_key(task_id), files),
                   cleanup_trigger_key(task_id))

\* the times to live after _schedule_cleanup: SETEX (re)starts the one of
\* the trigger key at CLEANUP_TTL_SECONDS
schedule_cleanup_ttl(t, task_id, input_data, result_data, redis_outcome, time) ==
    IF files_to_delete(input_data, result_data) # <<>> /\ redis_outcome = "ok"
    THEN {e \in t : e[1] # cleanup_trigger_key(task_id)}
             \cup {<<cleanup_trigger_key(task_id), time + CLEANUP_TTL_SECONDS>>}
    ELSE t

\* (mutant of ScheduleCleanup: an error of Redis leaves _schedule_cleanup
\* and fails the task)
ScheduleCleanup_raising(redis_outcome) ==
    /\ pc = "scheduling"
    /\ redis' = schedule_cleanup(redis, request.id, request.input_data,
                                 final_result, redis_outcome)
    /\ ttl' = schedule_cleanup_ttl(ttl, request.id, request.input_data,
                                   final_result, redis_outcome, now)
    /\ IF redis_outcome = "ok"
       THEN pc' = "returning" /\ UNCHANGED <<store, request, final_result>>
       ELSE /\ store' = store_result(store, request.id, "FAILURE",
                             exception("ConnectionError", "redis"))
            /\ pc' = "idle"
            /\ request' = NoMsg
            /\ final_result' = NoResult
    /\ UNCHANGED <<libVars, gatewayVars, clientVars, queue, bucketVars,
                   expiredKeys, events, listening, deleteLog, missed, crashes>>

ScheduleCleanup(redis_outcome) ==
    /\ pc = "scheduling"
    /\ redis' = schedule_cleanup(redis, request.id, request.input_data,
                                 final_result, redis_outcome)
    /\ ttl' = schedule_cleanup_ttl(ttl, request.id, request.input_data,
                                   final_result, redis_outcome, now)
    /\ pc' = "returning"
    /\ UNCHANGED <<libVars, gatewayVars, clientVars, queue, store, bucketVars,
                   expiredKeys, events, listening, deleteLog, missed,
                   request, final_result, crashes>>

\* return final_result: the worker stores SUCCESS with the result
ReturnResult ==
    /\ pc = "returning"
    /\ store' = store_result(store, request.id, "SUCCESS", final_result)
    /\ pc' = "ack"
    /\ UNCHANGED <<libVars, gatewayVars, clientVars, queue, bucketVars,
                   cleanupVars, request,
                   final_result, crashes>>

\* acks_late: the message is acknowledged when the task has run
Ack ==
    /\ pc = "ack"
    /\ pc' = "idle"
    /\ request' = NoMsg
    /\ final_result' = NoResult
    /\ UNCHANGED <<libVars, gatewayVars, clientVars, queue, store, bucketVars,
                   cleanupVars, crashes>>

\* (mutant of task_acks_late: the message is acknowledged on receipt)
task_acks_early == FALSE

\* The worker dies holding a message.  With task_acks_late the message is
\* still unacknowledged and the broker delivers it again.
task_acks_late == TRUE

Crash ==
    /\ pc # "idle"
    /\ crashes < MaxCrashes
    /\ crashes' = crashes + 1
    /\ queue' = IF task_acks_late THEN queue (+) SetToBag({request}) ELSE queue
    /\ pc' = "idle"
    /\ request' = NoMsg
    /\ final_result' = NoResult
    /\ UNCHANGED <<libVars, gatewayVars, clientVars, store, bucketVars,
                   cleanupVars>>

\* ------------------------------------------------------ cleanup-worker
\* The time to live of a trigger key elapses: Redis drops the key and
\* publishes its name on __keyevent@0__:expired, which only a subscribed
\* listener receives.
has_ttl(db, key) == <<key, "1">> \in db

Expire(key) ==
    /\ has_ttl(redis, key)
    /\ redis' = delete(redis, key)
    /\ ttl' = {e \in ttl : e[1] # key}
    /\ expiredKeys' = expiredKeys \cup {key}
    /\ events' = IF listening THEN Append(events, key) ELSE events
    /\ missed' = IF listening THEN missed
                 ELSE missed \cup
                          {<<key, lrange(redis, files_key(split_last(key, ":"))),
                             object_names(unprocessed) \cup object_names(processed)>>}
    /\ UNCHANGED <<libVars, gatewayVars, clientVars, queue, store, bucketVars,
                   listening, deleteLog, workerVars>>

\* The result backend is Redis db 0 as well: Celery stores the meta of task
\* id under celery-task-meta-{id} with a time to live (result_expires).
task_meta_key(task_id) == "celery-task-meta-" \o task_id

\* Keys of db 0 other than trigger keys whose expiry the listener hears of:
\* the task metas, and keys another writer may have set.
OtherKeys ==
    {task_meta_key(id) : id \in TaskIds} \cup {"xcleanup:1", "cleanup:1:2"}

\* The time to live of such a key elapses.  An expired task meta is gone
\* from the task store.
ExpireOther(key) ==
    /\ key \in OtherKeys
    /\ key \notin expiredKeys
    /\ \A id \in TaskIds :
          key = task_meta_key(id) => store[id] # NoMeta /\ request.id # id
    /\ store' = [id \in TaskIds |->
                    IF key = task_meta_key(id) THEN NoMeta ELSE store[id]]
    /\ expiredKeys' = expiredKeys \cup {key}
    /\ events' = IF listening THEN Append(events, key) ELSE events
    /\ UNCHANGED <<libVars, gatewayVars, clientVars, queue, bucketVars, redis,
                   ttl, listening, deleteLog, missed, workerVars>>

\* the bucket process_cleanup_task deletes an object from
bucket_of(object_name) ==
    IF contains(object_name, "input")
    THEN MINIO_BUCKET_UNPROCESSED ELSE MINIO_BUCKET_PROCESSED

\* the for loop of process_cleanup_task from position i on; failing: the
\* positions whose remove_object raises (caught and printed)
RECURSIVE remove_all(_, _, _, _, _)
remove_all(bucket, bucket_name, files, failing, i) ==
    IF i > Len(files) THEN bucket
    ELSE remove_all(
             IF bucket_of(files[i]) = bucket_name /\ i \notin failing
             THEN remove_object(bucket, files[i]) ELSE bucket,
             bucket_name, files, failing, i + 1)

delete_log(files, failing, time) ==
    [i \in 1..Len(files) |->
        [bucket |-> bucket_of(files[i]), object_name |-> files[i],
         ok |-> i \notin failing, at |-> time]]

\* (mutant of process_cleanup_task: no early return for an empty list, the
\* job's output object is removed by its conventional name)
process_cleanup_task_no_return(task_id, failing) ==
    LET listed_files == lrange(redis, files_key(task_id))
        files == IF listed_files = <<>> THEN <<task_id \o ".wav">> ELSE listed_files
    IN  /\ unprocessed' = remove_all(unprocessed, MINIO_BUCKET_UNPROCESSED,
                                     files, failing, 1)
        /\ processed' = remove_all(processed, MINIO_BUCKET_PROCESSED,
                                   files, failing, 1)
        /\ deleteLog' = delete_log(files, failing, now)
        /\ redis' = delete(redis, files_key(task_id))

process_cleanup_task(task_id, failing) ==
    LET files == lrange(redis, files_key(task_id))
    IN  IF files = <<>>
        THEN /\ deleteLog' = <<>>
             /\ UNCHANGED <<redis, bucketVars>>
        ELSE /\ unprocessed' = remove_all(unprocessed, MINIO_BUCKET_UNPROCESSED,
                                          files, failing, 1)
             /\ processed' = remove_all(processed, MINIO_BUCKET_PROCESSED,
                                        files, failing, 1)
             /\ deleteLog' = delete_log(files, failing, now)
             /\ redis' = delete(redis, files_key(task_id))

\* (mutant of listen_for_cleanup_events: "cleanup:" anywhere in the key)
listen_for_cleanup_events_contains(failing) ==
    /\ listening
    /\ events # <<>>
    /\ LET expired_key == Head(events)
       IN  /\ failing \subseteq 1..Len(lrange(redis, files_key(split_last(expired_key, ":"))))
           /\ IF contains(expired_key, "cleanup:")
              THEN process_cleanup_task(split_last(expired_key, ":"), failing)
              ELSE /\ failing = {}
                   /\ UNCHANGED <<redis, bucketVars, deleteLog>>
    /\ events' = Tail(events)
    /\ UNCHANGED <<libVars, gatewayVars, clientVars, queue, store, ttl,
                   expiredKeys, listening, missed, workerVars>>

\* one iteration of the loop of listen_for_cleanup_events
listen_for_cleanup_events(failing) ==
    /\ listening
    /\ events # <<>>
    /\ LET expired_key == Head(events)
       IN  /\ failing \subseteq 1..Len(lrange(redis, files_key(split_last(expired_key, ":"))))
           /\ IF startswith(expired_key, "cleanup:")
              THEN process_cleanup_task(split_last(expired_key, ":"), failing)
              ELSE /\ failing = {}
                   /\ UNCHANGED <<redis, bucketVars, deleteLog>>
    /\ events' = Tail(events)
    /\ UNCHANGED <<libVars, gatewayVars, clientVars, queue, store, ttl,
                   expiredKeys, listening, missed, workerVars>>

\* the cleanup worker stops (messages published meanwhile are not kept for
\* it) and starts again
ListenerStop ==
    /\ listening
    /\ listening' = FALSE
    /\ events' = <<>>
    /\ UNCHANGED <<libVars, gatewayVars, clientVars, queue, store, bucketVars,
                   redis, ttl, expiredKeys, deleteLog, missed, workerVars>>

\* (mutant of ListenerStart: the messages missed are delivered on subscribing)
ListenerStart_replaying ==
    /\ ~listening
    /\ listening' = TRUE
    /\ events' = IF missed = {} THEN <<>> ELSE <<(CHOOSE m \in missed : TRUE)[1]>>
    /\ UNCHANGED <<libVars, gatewayVars, clientVars, queue, store, bucketVars,
                   redis, ttl, expiredKeys, deleteLog, missed, workerVars>>

ListenerStart ==
    /\ ~listening
    /\ listening' = TRUE
    /\ UNCHANGED <<libVars, gatewayVars, clientVars, queue, store, bucketVars,
                   redis, ttl, expiredKeys, events, deleteLog, missed,
                   workerVars>>

\* ------------------------------------------------------------ the clock
Times == {i * TickSeconds : i \in 0..MaxTicks}

Tick ==
    /\ now < MaxTicks * TickSeconds
    /\ now' = now + TickSeconds
    /\ UNCHANGED <<libVars, gatewayVars, queue, store, bucketVars, cleanupVars,
                   workerVars, held, poller>>

\* Redis drops a key when its time to live has ended, not before
ExpireDue(key) ==
    /\ \E e \in ttl : e[1] = key /\ now >= e[2]
    /\ Expire(key)

\* ---------------------------------------------------------- the clients
base_url == "http://localhost:8000"

\* what a call returns to its caller, raises, or neither yet (the loop
\* sleeps and goes on)
PollReturned(value) == [kind |-> "return", value |-> value]
PollRaised(exc_type, message) ==
    [kind |-> "raise", exc_type |-> exc_type, message |-> message]
PollSleep == [kind |-> "sleep"]

\* no answer reached the client: httpx raises a RequestError
NoAnswer == [task_id |-> None, http |-> 0, status |-> None,
             transcribed_text |-> None, audio_url |-> None,
             error_message |-> None]

\* (mutant of client_get_task_result: the result carries the task id of the
\* response, not the requested one)
client_get_task_result_echo(task_id, r) ==
    IF r = NoAnswer
    THEN PollRaised("VoiceFlowError", "Failed to get task result")
    ELSE IF r.http # 200
    THEN PollRaised("APIError", "HTTP " \o ToString(r.http))
    ELSE IF r.status \notin {PENDING, SUCCESS, FAILED}
    THEN PollRaised("VoiceFlowError", "Failed to get task result")
    ELSE IF r.transcribed_text # None
    THEN PollReturned([type |-> "TranscriptionResult",
                       task_id |-> r.task_id, status |-> r.status,
                       transcribed_text |-> r.transcribed_text,
                       audio_url |-> None,
                       error_message |-> r.error_message])
    ELSE PollReturned([type |-> "SynthesisResult",
                       task_id |-> r.task_id, status |-> r.status,
                       transcribed_text |-> None,
                       audio_url |->
                           IF r.audio_url \notin {None, ""}
                              /\ startswith(r.audio_url, "/")
                           THEN base_url \o r.audio_url ELSE r.audio_url,
                       error_message |-> r.error_message])

\* AsyncVoiceFlowClient.get_task_result(task_id), the gateway answering r.
\* TaskStatus(data["status"]) raises ValueError for any other status, which
\* the last except clause turns into a VoiceFlowError.
client_get_task_result(task_id, r) ==
    IF r = NoAnswer
    THEN PollRaised("VoiceFlowError", "Failed to get task result")
    ELSE IF r.http # 200
    THEN PollRaised("APIError", "HTTP " \o ToString(r.http))
    ELSE IF r.status \notin {PENDING, SUCCESS, FAILED}
    THEN PollRaised("VoiceFlowError", "Failed to get task result")
    ELSE IF r.transcribed_text # None
    THEN PollReturned([type |-> "TranscriptionResult",
                       task_id |-> task_id, status |-> r.status,
                       transcribed_text |-> r.transcribed_text,
                       audio_url |-> None,
                       error_message |-> r.error_message])
    ELSE PollReturned([type |-> "SynthesisResult",
                       task_id |-> task_id, status |-> r.status,
                       transcribed_text |-> None,
                       audio_url |->
                           IF r.audio_url \notin {None, ""}
                              /\ startswith(r.audio_url, "/")
                           THEN base_url \o r.audio_url ELSE r.audio_url,
                       error_message |-> r.error_message])

\* What GET /v1/tasks/{task_id} can answer a client: nothing, an HTTP
\* error, or a body with any task id, status, text, URL and message.
TaskAnswers ==
    {NoAnswer, InternalServerError("1"),
     TaskResultResponse("1", "STARTED", None, None, None)}
    \cup {TaskResultResponse(id, status, text, url, message) :
              id \in TaskIds, status \in {PENDING, SUCCESS, FAILED},
              text \in {None, "", "hello"},
              url \in {None, "", "http://cdn/1.wav",
                       split_last(presigned_get_object(MINIO_BUCKET_PROCESSED,
                                      output_object_name_of("1"), 0),
                                  MINIO_ENDPOINT)},
              message \in {None, "Task failed"}}

\* a client calls get_task_result(task_id)
GetTaskResultCall(task_id, r) ==
    /\ call' = [fn |-> "get_task_result", task_id |-> task_id, response |-> r,
                outcome |-> client_get_task_result(task_id, r)]
    /\ UNCHANGED <<health, gatewayVars, queue, store, bucketVars, cleanupVars,
                   workerVars, clientVars>>

\* a client calls extract_filename_from_url(audio_url)
ExtractFilename(audio_url) ==
    /\ call' = [fn |-> "extract_filename_from_url", audio_url |-> audio_url,
                value |-> extract_filename_from_url(audio_url)]
    /\ UNCHANGED <<health, gatewayVars, queue, store, bucketVars, cleanupVars,
                   workerVars, clientVars>>

\* GET /health of the gateway: a constant, no store, queue or bucket is read
health_check == HttpResponse(200, TRUE, [status |-> "ok"])

\* What GET {base_url}/health can answer a client: nothing (gateway down,
\* connection refused, timeout), the gateway's answer, or the answer of
\* whatever else serves the URL (a proxy's error page, another service);
\* a body that is not JSON is written [text |-> ...].
HealthAnswers ==
    {NoHttpResponse,
     health_check,
     HttpResponse(200, TRUE, [status |-> "ok", version |-> "1"]),
     HttpResponse(200, TRUE, [status |-> "degraded"]),
     HttpResponse(200, TRUE, [detail |-> "ok"]),
     HttpResponse(200, TRUE, NoResult),
     HttpResponse(200, FALSE, [text |-> "ok"]),
     HttpResponse(404, TRUE, [detail |-> "Not Found"]),
     HttpResponse(500, TRUE, [status |-> "ok"]),
     HttpResponse(503, FALSE, [text |-> "Service Unavailable"])}

\* (mutant of client_health_check: every answer that is not an HTTP error
\* counts as healthy)
client_health_check_any_success(response) == ~post_raises(response)

\* AsyncVoiceFlowClient.health_check for the answer it gets: every
\* Exception of the try block is caught and gives False
client_health_check(response) ==
    IF post_raises(response) THEN FALSE        \* RequestError, HTTPStatusError
    ELSE IF ~response.is_json THEN FALSE       \* JSONDecodeError
    ELSE IF response.body = NoResult THEN FALSE  \* null: AttributeError
    ELSE IF "status" \notin DOMAIN response.body THEN FALSE  \* None == "ok"
    ELSE response.body.status = "ok"

\* a client calls health_check
HealthCheck(response) ==
    /\ health' = [fn |-> "health_check", response |-> response,
                  value |-> client_health_check(response)]
    /\ UNCHANGED <<call, gatewayVars, queue, store, bucketVars, cleanupVars,
                   workerVars, clientVars>>

\* the time a presigned URL was signed at, and whether it still opens
url_date(url) ==
    CHOOSE d \in Times : contains(url, "X-Amz-Date=" \o ToString(d) \o "&")
url_valid(url, time) == time < url_date(url) + expires

\* a client asks for the result of a finished synthesis and keeps the URL
Fetch(task_id) ==
    /\ task_id \in returned
    /\ LET result == client_get_task_result(task_id,
                         get_task_result(store, task_id, now))
       IN  /\ result.kind = "return"
           /\ result.value.status = SUCCESS
           /\ result.value.audio_url # None
           /\ held' = [url |-> result.value.audio_url, at |-> now]
    /\ UNCHANGED <<libVars, gatewayVars, queue, store, bucketVars, cleanupVars,
                   workerVars, now, poller>>

\* The pollers of the repository.
Pollers == {"_poll_transcription_result", "_poll_synthesis_result",
            "poll_for_result", "poll_task_result"}

\* the error_message as an f-string prints it (None prints as "None")
message_of(r) == r.error_message

\* (mutant of poll_iteration: the library's pollers sleep and go on after
\* an error of get_task_result)
poll_iteration_tolerant(fn, task_id, r) ==
    IF fn \in {"_poll_transcription_result", "_poll_synthesis_result"}
    THEN LET result == client_get_task_result(task_id, r)
         IN  IF result.kind = "raise" THEN PollSleep
             ELSE IF result.value.status = SUCCESS THEN result
             ELSE IF result.value.status = FAILED
             THEN PollRaised("VoiceFlowError",
                      (IF fn = "_poll_transcription_result"
                       THEN "Transcription failed: " ELSE "Synthesis failed: ")
                          \o message_of(result.value))
             ELSE PollSleep
    ELSE IF fn = "poll_for_result"
    THEN IF r = NoAnswer THEN PollSleep      \* except httpx.RequestError
         ELSE IF r.http # 200
         THEN PollRaised("HTTPStatusError", "HTTP " \o ToString(r.http))
         ELSE IF r.status = SUCCESS THEN PollReturned(r)
         ELSE IF r.status = FAILED
         THEN PollRaised("Exception", "Task failed: " \o message_of(r))
         ELSE PollSleep
    ELSE \* poll_task_result
         IF r = NoAnswer \/ r.http # 200 THEN PollSleep   \* except Exception
         ELSE IF r.status \in {SUCCESS, FAILED} THEN PollReturned(r)
         ELSE PollSleep

\* one iteration of the while loop of poller fn, the gateway answering r
poll_iteration(fn, task_id, r) ==
    IF fn \in {"_poll_transcription_result", "_poll_synthesis_result"}
    THEN LET result == client_get_task_result(task_id, r)
         IN  IF result.kind = "raise" THEN result
             ELSE IF result.value.status = SUCCESS THEN result
             ELSE IF result.value.status = FAILED
             THEN PollRaised("VoiceFlowError",
                      (IF fn = "_poll_transcription_result"
                       THEN "Transcription failed: " ELSE "Synthesis failed: ")
                          \o message_of(result.value))
             ELSE PollSleep
    ELSE IF fn = "poll_for_result"
    THEN IF r = NoAnswer THEN PollSleep      \* except httpx.RequestError
         ELSE IF r.http # 200
         THEN PollRaised("HTTPStatusError", "HTTP " \o ToString(r.http))
         ELSE IF r.status = SUCCESS THEN PollReturned(r)
         ELSE IF r.status = FAILED
         THEN PollRaised("Exception", "Task failed: " \o message_of(r))
         ELSE PollSleep
    ELSE \* poll_task_result
         IF r = NoAnswer \/ r.http # 200 THEN PollSleep   \* except Exception
         ELSE IF r.status \in {SUCCESS, FAILED} THEN PollReturned(r)
         ELSE PollSleep

\* what poller fn does when its while condition fails
poll_timeout(fn, task_id) ==
    IF fn = "_poll_transcription_result"
    THEN PollRaised("TaskTimeoutError",
                    "Transcription task " \o task_id \o " timed out")
    ELSE IF fn = "_poll_synthesis_result"
    THEN PollRaised("TaskTimeoutError",
                    "Synthesis task " \o task_id \o " timed out")
    ELSE IF fn = "poll_for_result"
    THEN PollRaised("TimeoutError", "Task " \o task_id \o " timed out")
    ELSE PollReturned([status |-> FAILED, error_message |-> "Timeout"])

running == poller.fn # None /\ poller.outcome = NoResult

\* a client starts to poll a job it submitted; the library's two pollers
\* follow its transcribe and its synthesize
StartPoll(fn, task_id) ==
    /\ ~running
    /\ \E msg \in sent :
          /\ msg.id = task_id
          /\ fn = "_poll_transcription_result" => msg.mode = V2T
          /\ fn = "_poll_synthesis_result" => msg.mode = T2V
    /\ poller' = [fn |-> fn, task_id |-> task_id, budget |-> MaxPolls,
                  polls |-> 0, queries |-> 0, outcome |-> NoResult]
    /\ UNCHANGED <<libVars, gatewayVars, queue, store, bucketVars, cleanupVars,
                   workerVars, now, held>>

\* the iterations whose test `elapsed < timeout` passes: a query takes no
\* time and every sleep takes poll_interval, so the tests are made at
\* 0, poll_interval, 2 * poll_interval, ...
poll_interval == 2
Timeouts == (0 - 1)..(MaxPolls * poll_interval)
iterations_within(timeout) ==
    IF timeout <= 0 THEN 0 ELSE (timeout + poll_interval - 1) \div poll_interval

\* a client starts to poll with a timeout of its choice
StartPollWithin(fn, task_id, timeout) ==
    /\ ~running
    /\ \E msg \in sent :
          /\ msg.id = task_id
          /\ fn = "_poll_transcription_result" => msg.mode = V2T
          /\ fn = "_poll_synthesis_result" => msg.mode = T2V
    /\ poller' = [fn |-> fn, task_id |-> task_id,
                  budget |-> iterations_within(timeout),
                  polls |-> 0, queries |-> 0, outcome |-> NoResult]
    /\ UNCHANGED <<libVars, gatewayVars, queue, store, bucketVars, cleanupVars,
                   workerVars, now, held>>

\* (mutant of Poll: the time is tested after the query, not before)
Poll_query_first(answered) ==
    /\ running
    /\ poller.polls <= poller.budget
    /\ LET r == IF answered
                THEN get_task_result(store, poller.task_id, now) ELSE NoAnswer
           step == poll_iteration(poller.fn, poller.task_id, r)
       IN  poller' = IF step = PollSleep
                     THEN [poller EXCEPT !.polls = @ + 1, !.queries = @ + 1]
                     ELSE [poller EXCEPT !.outcome = step, !.queries = @ + 1]
    /\ UNCHANGED <<libVars, gatewayVars, queue, store, bucketVars, cleanupVars,
                   workerVars, now, held>>

\* one iteration: the time spent is still within the budget
Poll(answered) ==
    /\ running
    /\ poller.polls < poller.budget
    /\ LET r == IF answered
                THEN get_task_result(store, poller.task_id, now) ELSE NoAnswer
           step == poll_iteration(poller.fn, poller.task_id, r)
       IN  poller' = IF step = PollSleep
                     THEN [poller EXCEPT !.polls = @ + 1, !.queries = @ + 1]
                     ELSE [poller EXCEPT !.outcome = step, !.queries = @ + 1]
    /\ UNCHANGED <<libVars, gatewayVars, queue, store, bucketVars, cleanupVars,
                   workerVars, now, held>>

\* (mutant of PollTimeout: giving up revokes the task)
PollTimeout_revoking ==
    /\ running
    /\ poller.polls >= poller.budget
    /\ poller' = [poller EXCEPT
                     !.outcome = poll_timeout(poller.fn, poller.task_id)]
    /\ store' = [store EXCEPT ![poller.task_id] =
                     [status |-> "REVOKED", result |-> NoResult]]
    /\ UNCHANGED <<libVars, gatewayVars, queue, bucketVars, cleanupVars, workerVars,
                   now, held>>

\* the budget is used up
PollTimeout ==
    /\ running
    /\ poller.polls >= poller.budget
    /\ poller' = [poller EXCEPT
                     !.outcome = poll_timeout(poller.fn, poller.task_id)]
    /\ UNCHANGED <<libVars, gatewayVars, queue, store, bucketVars, cleanupVars,
                   workerVars, now, held>>

MaxFiles == 2 * (MaxCrashes + 1)

Next ==
    \/ \E f \in FileNames, d \in AudioBytes, ok \in BOOLEAN : transcribe_audio(f, d, ok)
    \/ \E t \in Texts : synthesize_text(t)
    \/ \E t \in Texts : synthesize(t)
    \/ \E id \in TaskIds : GetResult(id)
    \/ Receive
    \/ \E o \in Outcomes : Invoke(o)
    \/ \E o \in RedisOutcomes : ScheduleCleanup(o)
    \/ ReturnResult
    \/ Ack
    \/ Crash
    \/ \E id \in TaskIds : Expire(cleanup_trigger_key(id))
    \/ \E failing \in SUBSET (1..MaxFiles) : listen_for_cleanup_events(failing)
    \/ ListenerStop
    \/ ListenerStart

Spec == Init /\ [][Next]_vars

\* The same system with every backend, store and Redis call succeeding:
\* the worker may still crash and keys still expire.
NextHealthy ==
    \/ \E f \in FileNames, d \in AudioBytes : transcribe_audio(f, d, TRUE)
    \/ \E t \in Texts : synthesize_text(t)
    \/ \E id \in TaskIds : GetResult(id)
    \/ Receive
    \/ Invoke("ok")
    \/ ScheduleCleanup("ok")
    \/ ReturnResult
    \/ Ack
    \/ Crash
    \/ \E id \in TaskIds : Expire(cleanup_trigger_key(id))
    \/ listen_for_cleanup_events({})
    \/ ListenerStop
    \/ ListenerStart

SpecHealthy == Init /\ [][NextHealthy]_vars

\* The system with its clients polling: every failure of Next, and the
\* pollers of the repository running against the gateway.
NextClient ==
    \/ \E f \in FileNames, d \in AudioBytes, ok \in BOOLEAN : transcribe_audio(f, d, ok)
    \/ \E t \in Texts : strip(t) # "" /\ synthesize_text(t)
    \/ Receive
    \/ \E o \in Outcomes : Invoke(o)
    \/ \E o \in RedisOutcomes : ScheduleCleanup(o)
    \/ ReturnResult
    \/ Ack
    \/ Crash
    \/ \E id \in TaskIds : Expire(cleanup_trigger_key(id))
    \/ \E failing \in SUBSET (1..MaxFiles) : listen_for_cleanup_events(failing)
    \/ ListenerStop
    \/ ListenerStart
    \/ \E fn \in Pollers, id \in TaskIds : StartPoll(fn, id)
    \/ \E answered \in BOOLEAN : Poll(answered)
    \/ PollTimeout

SpecClient == Init /\ [][NextClient]_vars

\* The system with the clock running and every call succeeding: trigger
\* keys expire when their time to live has ended, a client reads results.
NextTimed ==
    \/ \E f \in FileNames, d \in AudioBytes : transcribe_audio(f, d, TRUE)
    \/ \E t \in Texts : strip(t) # "" /\ synthesize_text(t)
    \/ Receive
    \/ Invoke("ok")
    \/ ScheduleCleanup("ok")
    \/ ReturnResult
    \/ Ack
    \/ Tick
    \/ \E id \in TaskIds : ExpireDue(cleanup_trigger_key(id))
    \/ listen_for_cleanup_events({})
    \/ \E id \in TaskIds : Fetch(id)

SpecTimed == Init /\ [][NextTimed]_vars

\* The system with its backends failing and a client that checks the
\* gateway's health at any moment.
NextHealth ==
    \/ \E f \in FileNames, d \in AudioBytes : transcribe_audio(f, d, TRUE)
    \/ \E t \in Texts : strip(t) # "" /\ synthesize_text(t)
    \/ Receive
    \/ \E o \in Outcomes : Invoke(o)
    \/ ScheduleCleanup("ok")
    \/ ReturnResult
    \/ Ack
    \/ \E response \in HealthAnswers : HealthCheck(response)

SpecHealth == Init /\ [][NextHealth]_vars

\* The functions of the client library applied to every answer and every
\* URL of a bounded set.
NextLibrary ==
    \/ \E id \in TaskIds, r \in TaskAnswers : GetTaskResultCall(id, r)
    \/ \E url \in Urls : ExtractFilename(url)

SpecLibrary == Init /\ [][NextLibrary]_vars

\* Two jobs in one deployment, every backend, store and Redis call
\* succeeding; the worker may crash and deletes of the cleanup worker may
\* fail.
NextPair ==
    \/ \E f \in FileNames : transcribe_audio(f, "RIFF", TRUE)
    \/ synthesize_text(" hi")
    \/ Receive
    \/ Invoke("ok")
    \/ ScheduleCleanup("ok")
    \/ ReturnResult
    \/ Ack
    \/ Crash
    \/ \E id \in TaskIds : Expire(cleanup_trigger_key(id))
    \/ \E failing \in SUBSET (1..MaxFiles) : listen_for_cleanup_events(failing)

SpecPair == InitPair /\ [][NextPair]_vars

\* The system with every call succeeding and keys of db 0 other than the
\* trigger keys expiring as well.
NextExpiry ==
    \/ \E f \in FileNames : transcribe_audio(f, "RIFF", TRUE)
    \/ synthesize_text(" hi")
    \/ Receive
    \/ Invoke("ok")
    \/ ScheduleCleanup("ok")
    \/ ReturnResult
    \/ Ack
    \/ Crash
    \/ \E id \in TaskIds : Expire(cleanup_trigger_key(id))
    \/ \E key \in OtherKeys : ExpireOther(key)
    \/ \E failing \in SUBSET (1..MaxFiles) : listen_for_cleanup_events(failing)

SpecExpiry == Init /\ [][NextExpiry]_vars

\* The system with a client that polls with any timeout, zero and negative
\* ones included.
NextPoll ==
    \/ \E f \in FileNames : transcribe_audio(f, "RIFF", TRUE)
    \/ synthesize_text(" hi")
    \/ Receive
    \/ \E o \in Outcomes : Invoke(o)
    \/ ScheduleCleanup("ok")
    \/ ReturnResult
    \/ Ack
    \/ \E fn \in Pollers, id \in TaskIds, timeout \in Timeouts :
           StartPollWithin(fn, id, timeout)
    \/ \E answered \in BOOLEAN : Poll(answered)
    \/ PollTimeout

SpecPoll == Init /\ [][NextPoll]_vars

\* The system with malformed work items on the queue as well.
NextMalformed ==
    \/ \E f \in FileNames : transcribe_audio(f, "RIFF", TRUE)
    \/ synthesize_text(" hi")
    \/ \E item \in MalformedItems : SendMalformed(item)
    \/ Receive
    \/ \E o \in Outcomes : Invoke(o)
    \/ \E o \in RedisOutcomes : ScheduleCleanup(o)
    \/ ReturnResult
    \/ Ack
    \/ Crash
    \/ \E id \in TaskIds : Expire(cleanup_trigger_key(id))
    \/ listen_for_cleanup_events({})

SpecMalformed == Init /\ [][NextMalformed]_vars

\* The system without worker crashes, every backend and Redis call free to
\* fail.  The worker goes on with a message it can take and with a task it
\* has started; the cleanup worker and clients need not do anything.
NextLive ==
    \/ \E f \in FileNames, d \in AudioBytes : transcribe_audio(f, d, TRUE)
    \/ \E t \in Texts : strip(t) # "" /\ synthesize_text(t)
    \/ Receive
    \/ \E o \in Outcomes : Invoke(o)
    \/ \E o \in RedisOutcomes : ScheduleCleanup(o)
    \/ ReturnResult
    \/ Ack
    \/ \E id \in TaskIds : Expire(cleanup_trigger_key(id))
    \/ listen_for_cleanup_events({})

SpecLive ==
    /\ Init
    /\ [][NextLive]_vars
    /\ WF_vars(Receive)
    /\ WF_vars(\E o \in Outcomes : Invoke(o))
    /\ WF_vars(\E o \in RedisOutcomes : ScheduleCleanup(o))
    /\ WF_vars(ReturnResult)
    /\ WF_vars(Ack)

\* ================================================================ claims
messages == BagToSet(queue) \cup (IF request = NoMsg THEN {} ELSE {request})
\* a step of Invoke that ends in an except clause
FailedAttempt == pc = "started" /\ pc' = "ack"
\* a step of Ack
AckStep == pc = "ack" /\ pc' = "idle" /\ crashes' = crashes
\* a step of Crash
CrashStep == crashes' = crashes + 1
\* a step of listen_for_cleanup_events
ListenStep == listening /\ listening' /\ events # <<>> /\ events' = Tail(events)
\* the objects of a job in the two buckets
artifacts_of(task_id) ==
    {name \in object_names(unprocessed) \cup object_names(processed) :
        startswith(name, task_id \o "_") \/ startswith(name, task_id \o ".")}
\* what process_pipeline returns for a message delivered once, with every
\* backend answering and the uploaded input in place
single_delivery(msg) ==
    pipeline_body(msg.id, msg.mode, msg.input_data, uploaded, "ok")

\* C1: once GetResult takes the SUCCESS or the FAILED branch for a job, it
\* takes that same branch for the job ever after (a terminal task state
\* never changes back to PENDING or to the other terminal value), whatever
\* attempts, retries, crashes and redeliveries follow.
C1_TerminalIsFinal ==
    [][\A id \in TaskIds :
          task_status(store[id]) \in {SUCCESS, FAILED}
              => task_status(store'[id]) = task_status(store[id])]_vars

\* C2: a job that nothing is left to do for (no message of it queued or
\* held by the worker) is reported by GetResult as SUCCESS with a non-empty
\* result or as FAILED with a non-empty error_message.
Quiescent(task_id) == \A msg \in messages : msg.id # task_id
C2_SettledJobIsReported ==
    \A id \in returned :
        Quiescent(id) =>
            LET r == get_task_result(store, id, now)
            IN  /\ r.http = 200
                /\ \/ /\ r.status = SUCCESS
                      /\ \/ r.transcribed_text \notin {None, ""}
                         \/ r.audio_url \notin {None, ""}
                   \/ /\ r.status = FAILED
                      /\ r.error_message \notin {None, ""}

\* (C2, for the record: such a job is always in a terminal task state; what
\* fails is the answer of GetResult for the state FAILURE, see C8)
C2_SettledJobIsTerminal ==
    \A id \in returned : Quiescent(id) => ready(store[id])

C3_Budget == \A msg \in messages : msg.retries <= max_retries
C3_LastAttempt ==
    FailedAttempt /\ request.retries = max_retries
        => /\ queue' = queue
           /\ store[request.id].status # "SUCCESS"
                 => /\ store'[request.id].status = "FAILURE"
                    /\ is_exception(store'[request.id].result)
                    /\ store'[request.id].result.exc_message # ""
C3_EarlierAttempt ==
    FailedAttempt /\ request.retries < max_retries
        => \/ /\ queue' = queue (+) SetToBag({retry_message(request)})
              /\ store'[request.id].status \in {"RETRY", "SUCCESS"}
           \/ /\ queue' = queue
              /\ store'[request.id].status \in {"FAILURE", "SUCCESS"}
              /\ store'[request.id].status = "FAILURE"
                    => store'[request.id].result.exc_type = "JSONDecodeError"
listed(task_id) ==
    LET files == lrange(redis, files_key(task_id))
    IN  {files[i] : i \in 1..Len(files)}
C4_TerminalJobHasCleanupRecord ==
    \A id \in TaskIds :
        store[id].status \in {"SUCCESS", "FAILURE"}
            => /\ \/ exists(redis, cleanup_trigger_key(id))
                  \/ cleanup_trigger_key(id) \in expiredKeys
               /\ exists(redis, cleanup_trigger_key(id))
                     => artifacts_of(id) \subseteq listed(id)

\* C5: when the listener has handled an expiry and no delete raised, no
\* object of the file list is left in a bucket.
C5_ListedObjectsAreRemoved ==
    [][ListenStep /\ deleteLog' # deleteLog
            /\ (\A i \in DOMAIN deleteLog' : deleteLog'[i].ok)
          => \A i \in DOMAIN deleteLog' :
                deleteLog'[i].object_name \notin
                    object_names(unprocessed') \cup object_names(processed')]_vars

\* C6: with every backend answering, a job whose single delivery succeeds
\* is, once nothing is left to do for it, in SUCCESS with the result of
\* that single delivery, however often the worker crashed and the item was
\* delivered again; the processed bucket never holds more than one object
\* of the job.
outputs_of(task_id) == {o \in processed : startswith(o[1], task_id)}
C6_RedeliveryEndsAsSingleDelivery ==
    \A msg \in sent :
        /\ Cardinality(outputs_of(msg.id)) <= 1
        /\ Quiescent(msg.id) /\ single_delivery(msg).kind = "return"
              => /\ store[msg.id].status = "SUCCESS"
                 /\ store[msg.id].result = single_delivery(msg).final_result

\* C7: the file list of a job is empty or the list one run of
\* _schedule_cleanup writes, each object once.
C7_FileListAsAfterOneRun ==
    \A msg \in sent :
        single_delivery(msg).kind = "return"
            => lrange(redis, files_key(msg.id)) \in
                   {<<>>, files_to_delete(msg.input_data,
                                          single_delivery(msg).final_result)}

\* C8: for a job whose retries are used up (task state FAILURE) GetResult
\* answers 200 with status FAILED and a non-empty error_message.
C8_FailedJobIsReported ==
    \A id \in TaskIds :
        store[id].status = "FAILURE"
            => LET r == get_task_result(store, id, now)
               IN  /\ r.http = 200
                   /\ r.status = FAILED
                   /\ r.error_message \notin {None, ""}

\* C9: GetResult for a task id no submit has returned answers not found
\* (404), never a task state.
C9_UnknownIdIsNotFound ==
    \A id \in TaskIds \ returned : get_task_result(store, id, now).http = 404

\* C10: a message is acknowledged only when the task is in a terminal state
\* or its retry is queued; a crash puts the unacknowledged message back in
\* the queue; every submitted job is in a terminal state or has a message
\* queued or held by the worker.
C10_AckAfterWrite ==
    AckStep => \/ store[request.id].status \in {"SUCCESS", "FAILURE"}
               \/ BagIn(retry_message(request), queue)
C10_CrashRedelivers == CrashStep => BagIn(request, queue')
C10_NoJobLost ==
    \A msg \in sent :
        \/ store[msg.id].status \in {"SUCCESS", "FAILURE"}
        \/ \E m \in messages : m.id = msg.id
C10_LateAck ==
    []C10_NoJobLost /\ [][C10_AckAfterWrite /\ C10_CrashRedelivers]_vars

\* C10 witness: the worker crashed, the item is back in the queue and the
\* job is not in a terminal state
C10_Witness ==
    /\ crashes > 0
    /\ pc = "idle"
    /\ \E msg \in sent :
          /\ ~ready(store[msg.id])
          /\ \E m \in BagToSet(queue) : m.id = msg.id

\* C11: a failed attempt made before the retry budget is used up (retry
\* counter below max_retries; every failed attempt of the model is a failed
\* backend call: a transport error or a response of status >= 400, its body
\* JSON or not) queues the item again and does not make the job FAILED.
C11_FailureBeforeBudgetIsRequeued ==
    [][FailedAttempt /\ request.retries < max_retries
          => /\ queue' = queue (+) SetToBag({retry_message(request)})
             /\ store'[request.id].status # "FAILURE"]_vars

\* C12: in every answer of GetResult a result field is set only with status
\* SUCCESS and error_message only with status FAILED, never both, and
\* neither with PENDING: for the task states reached, and for each kind of
\* task meta the backend can hold.
populated(field) == field # None
ResultXorError(r) ==
    /\ populated(r.transcribed_text) \/ populated(r.audio_url)
          => r.status = SUCCESS
    /\ populated(r.error_message) => r.status = FAILED
    /\ ~(/\ populated(r.transcribed_text) \/ populated(r.audio_url)
         /\ populated(r.error_message))
    /\ r.status = PENDING
          => /\ ~populated(r.transcribed_text)
             /\ ~populated(r.audio_url)
             /\ ~populated(r.error_message)
TaskMetas ==
    {NoMeta,
     [status |-> "STARTED", result |-> NoResult],
     [status |-> "RETRY", result |-> exception("Exception", "HTTP Error")],
     [status |-> "FAILURE", result |-> exception("Exception", "HTTP Error")],
     [status |-> "FAILURE", result |-> [error |-> "boom"]],
     [status |-> "FAILURE", result |-> NoResult],
     [status |-> "REVOKED", result |-> NoResult],
     [status |-> "SUCCESS", result |-> transcribed_result("hello")],
     [status |-> "SUCCESS", result |-> transcribed_result("")],
     [status |-> "SUCCESS", result |-> synthesized_result("1.wav")]}
C12_ResultXorError ==
    /\ \A id \in TaskIds : ResultXorError(get_task_result(store, id, now))
    /\ \A meta \in TaskMetas, id \in TaskIds :
          ResultXorError(get_task_result([i \in TaskIds |-> meta], id, now))

\* C12 witness: GetResult answers SUCCESS with the audio_url set and no
\* error_message
C12_Witness ==
    \E id \in returned :
        LET r == get_task_result(store, id, now)
        IN  r.status = SUCCESS /\ populated(r.audio_url)
                /\ ~populated(r.error_message)

\* C13: a submit that succeeds answers 200 with status PENDING and a task id
\* that is fresh (no earlier submit returned it, the task store does not know
\* it, no message carries it), having put exactly one message with that id
\* on the queue; it reads and changes nothing of the worker or of the task
\* store, and it is enabled whenever an id is left, whatever the worker does.
SubmitStep == sent' # sent
C13_SubmitStep ==
    SubmitStep
        => \E msg \in sent' :
              /\ sent' = sent \cup {msg}
              /\ msg.id \notin returned
              /\ store[msg.id] = NoMeta
              /\ \A m \in messages : m.id # msg.id
              /\ msg.retries = 0
              /\ queue' = queue (+) SetToBag({msg})
              /\ reply' = SubmitResponse(msg.id, PENDING)
              /\ UNCHANGED <<store, workerVars>>
C13_SubmitEnabled ==
    nextId < quota
        => /\ ENABLED (synthesize_text(" hi") /\ SubmitStep)
           /\ ENABLED (transcribe_audio("input.wav", "RIFF", TRUE) /\ SubmitStep)
C13_ReplyIsPending ==
    reply.http = 200 => reply.status = PENDING /\ reply.task_id \in returned
C13_SubmitReturnsPending ==
    [](C13_SubmitEnabled /\ C13_ReplyIsPending) /\ [][C13_SubmitStep]_vars

\* C13 witness: the submit has answered and no worker has touched the job
C13_Witness ==
    /\ reply.http = 200 /\ reply.status = PENDING
    /\ store[reply.task_id] = NoMeta
    /\ pc = "idle"
    /\ \E msg \in BagToSet(queue) :
          msg.id = reply.task_id /\ CopiesIn(msg, queue) = 1

\* C14: a transcription submit whose upload fails answers an error and
\* sends no message; every transcription message, queued or held by the
\* worker, names an object the gateway uploaded.
UploadFailedStep == nextId' = nextId + 1 /\ reply'.http >= 400
C14_UploadFailedSendsNothing ==
    UploadFailedStep
        => /\ queue' = queue
           /\ sent' = sent
           /\ \A m \in BagToSet(queue') : m.id # ToString(nextId')
C14_QueuedInputWasUploaded ==
    \A msg \in messages \cup sent :
        msg.mode = V2T
            => msg.input_data.input_object_name \in object_names(uploaded)
C14_FailedUploadIsNotEnqueued ==
    []C14_QueuedInputWasUploaded /\ [][C14_UploadFailedSendsNothing]_vars

\* C14 witness: the upload failed, the submit answered 500 and there is no
\* message
C14_Witness ==
    /\ reply = HTTPException(500, "Failed to upload file")
    /\ nextId = 1
    /\ messages = {} /\ sent = {} /\ uploaded = {}

\* C15: no empty audio is uploaded and no transcription message names an
\* empty input (a submit with empty audio is rejected).
C15_EmptyAudioIsRejected ==
    /\ \A o \in uploaded : o[2] # ""
    /\ \A msg \in sent :
          msg.mode = V2T
              => <<msg.input_data.input_object_name, "">> \notin uploaded

\* C16: for a text that is empty or blank the client's synthesize can only
\* raise VoiceFlowError("Text cannot be empty"), sending nothing, and the
\* gateway's endpoint can only answer 400, sending no message; a rejection
\* draws no id and changes nothing but the reply; every text-to-speech
\* message carries a text that is non-empty and stripped.
ClientRejects(text) ==
    /\ ENABLED synthesize(text)
    /\ ~ENABLED (synthesize(text)
                    /\ reply' # ClientRaised("VoiceFlowError",
                                             "Text cannot be empty"))
GatewayRejects(text) ==
    /\ ENABLED synthesize_text(text)
    /\ ~ENABLED (synthesize_text(text) /\ reply'.http # 400)
C16_BlankTextIsRejected ==
    \A text \in Texts :
        strip(text) = "" => ClientRejects(text) /\ GatewayRejects(text)
RejectedStep == reply' # reply /\ reply'.http \in {0, 400}
C16_RejectionSendsNothing ==
    RejectedStep
        => UNCHANGED <<nextId, sent, uploaded, queue, store, bucketVars,
                       cleanupVars, workerVars>>
C16_QueuedTextIsStripped ==
    \A msg \in messages \cup sent :
        msg.mode = T2V
            => /\ msg.input_data.text # ""
               /\ msg.input_data.text = strip(msg.input_data.text)
C16_BlankTextIsNeverEnqueued ==
    [](C16_BlankTextIsRejected /\ C16_QueuedTextIsStripped)
        /\ [][C16_RejectionSendsNothing]_vars

\* C16 witness: a text that needed stripping is queued, stripped, and a
\* later blank text has been rejected by the client
C16_Witness ==
    /\ reply = ClientRaised("VoiceFlowError", "Text cannot be empty")
    /\ \E msg \in BagToSet(queue) :
          msg.mode = T2V /\ msg.input_data.text = "hi"

\* C17: the task store holds the object name of a synthesized artifact and
\* never a URL; the URL GetResult answers for it is signed at the time of
\* that read (its validity of 15 minutes starts at the read), so a read at
\* any other time answers a different URL; the URL a client keeps was
\* signed when the client read it, whenever the job completed.
synthesized(task_id) ==
    /\ successful(store[task_id])
    /\ "output_object_name" \in DOMAIN store[task_id].result
C17_StoreHoldsReference ==
    \A id \in TaskIds :
        synthesized(id)
            => /\ store[id].result =
                      synthesized_result(output_object_name_of(id))
               /\ ~contains(store[id].result.output_object_name, "http")
               /\ ~contains(store[id].result.output_object_name, "X-Amz")
C17_SignedAtRead ==
    \A id \in TaskIds :
        synthesized(id)
            => LET url == get_task_result(store, id, now).audio_url
               IN  /\ url_date(url) = now
                   /\ url_valid(url, now)
                   /\ ~url_valid(url, now + expires)
                   /\ \A time \in Times \ {now} :
                         get_task_result(store, id, time).audio_url # url
C17_HeldSignedWhenRead ==
    held # NoHeld => url_date(held.url) = held.at /\ held.at <= now
C17_UrlIsSignedAtReadTime ==
    C17_StoreHoldsReference /\ C17_SignedAtRead /\ C17_HeldSignedWhenRead

\* C17 witness: a client kept the URL of an earlier read, and a read now
\* answers another URL, valid for longer
C17_Witness ==
    /\ held # NoHeld
    /\ held.at > 0
    /\ now > held.at
    /\ \E id \in returned :
          /\ synthesized(id)
          /\ LET url == get_task_result(store, id, now).audio_url
             IN  /\ base_url \o url # held.url
                 /\ url_date(url) > url_date(held.url)

\* C18: GetResult answers SUCCESS with a URL of the output object for every
\* synthesized job, whether the processed bucket still holds the object or
\* not.
C18_SuccessWithUrlWithoutObject ==
    \A id \in TaskIds :
        synthesized(id)
            => LET r == get_task_result(store, id, now)
               IN  /\ r.http = 200
                   /\ r.status = SUCCESS
                   /\ r.error_message = None
                   /\ startswith(r.audio_url,
                          "/" \o MINIO_BUCKET_PROCESSED \o "/"
                              \o output_object_name_of(id) \o "?")

\* C18 witness: a client keeps a URL, read before the time to live of the
\* cleanup ended, that is still within its 15 minutes; the cleanup worker
\* has deleted the object the URL names since, and GetResult still answers
\* SUCCESS with a URL
C18_Witness ==
    /\ held # NoHeld
    /\ url_valid(held.url, now)
    /\ \E id \in returned :
          /\ contains(held.url, "/" \o output_object_name_of(id) \o "?")
          /\ output_object_name_of(id) \notin object_names(processed)
          /\ \E i \in DOMAIN deleteLog :
                /\ deleteLog[i].object_name = output_object_name_of(id)
                /\ deleteLog[i].ok
                /\ held.at < deleteLog[i].at
          /\ get_task_result(store, id, now).status = SUCCESS
          /\ get_task_result(store, id, now).audio_url # None

\* C19: when a poller's budget is used up, what it hands its caller says
\* timeout and does not say FAILED; when the gateway answers FAILED, what it
\* hands its caller says FAILED and does not say timeout.
reports_timeout(outcome) ==
    /\ outcome.kind = "raise"
    /\ outcome.exc_type \in {"TaskTimeoutError", "TimeoutError"}
reports_failed(outcome) ==
    \/ outcome.kind = "return" /\ outcome.value.status = FAILED
    \/ /\ outcome.kind = "raise"
       /\ \/ startswith(outcome.message, "Transcription failed")
          \/ startswith(outcome.message, "Synthesis failed")
          \/ startswith(outcome.message, "Task failed")
TimeoutStep ==
    running /\ poller.polls = MaxPolls /\ poller'.outcome # NoResult
FailedSeenStep ==
    /\ running /\ poller.polls < MaxPolls /\ poller'.outcome # NoResult
    /\ get_task_result(store, poller.task_id, now).http = 200
    /\ get_task_result(store, poller.task_id, now).status = FAILED
C19_TimeoutIsNotFailed ==
    [][/\ TimeoutStep => /\ reports_timeout(poller'.outcome)
                         /\ ~reports_failed(poller'.outcome)
       /\ FailedSeenStep => /\ reports_failed(poller'.outcome)
                            /\ ~reports_timeout(poller'.outcome)]_vars

\* C20: a poller giving up changes nothing but the poller: the queue, the
\* message the worker holds, the task store, the buckets and the cleanup
\* records are as before; and for a job a poller gave up on, GetResult
\* answers SUCCESS once the worker has stored the result.
gave_up(p) ==
    /\ p.fn # None
    /\ p.polls = MaxPolls
    /\ p.outcome = poll_timeout(p.fn, p.task_id)
C20_TimeoutFrame ==
    TimeoutStep
        => UNCHANGED <<gatewayVars, queue, store, bucketVars, cleanupVars,
                       workerVars, now, held>>
C20_LaterReadSucceeds ==
    gave_up(poller) /\ successful(store[poller.task_id])
        => LET r == get_task_result(store, poller.task_id, now)
           IN  /\ r.http = 200
               /\ r.status = SUCCESS
               /\ populated(r.transcribed_text) \/ populated(r.audio_url)
C20_GaveUpJobGoesOn ==
    gave_up(poller) =>
        \/ ready(store[poller.task_id])
        \/ \E m \in messages : m.id = poller.task_id
C20_TimeoutChangesNothing ==
    [](C20_LaterReadSucceeds /\ C20_GaveUpJobGoesOn)
        /\ [][C20_TimeoutFrame]_vars

\* C20 witness: the poller gave up while the job was not finished (its
\* answers were all PENDING), and the job has finished with SUCCESS since
C20_Witness ==
    /\ gave_up(poller)
    /\ successful(store[poller.task_id])
    /\ pc = "idle" /\ Quiescent(poller.task_id)
    /\ get_task_result(store, poller.task_id, now).status = SUCCESS

\* C21: when process_cleanup_task runs on a file list, every artifact of the
\* list gets exactly one delete attempt, whether attempts fail or not; the
\* file list is gone afterwards, and the trigger key is not set again.
handled_id == split_last(Head(events), ":")
ProcessStep ==
    /\ ListenStep
    /\ startswith(Head(events), "cleanup:")
    /\ lrange(redis, files_key(handled_id)) # <<>>
attempts(log, object_name) ==
    {i \in DOMAIN log : log[i].object_name = object_name}
C21_EachArtifactOneAttempt ==
    [][ProcessStep
          => /\ \A name \in listed(handled_id) :
                   Cardinality(attempts(deleteLog', name)) = 1
             /\ ~exists(redis', files_key(handled_id))
             /\ exists(redis', cleanup_trigger_key(handled_id))
                   = exists(redis, cleanup_trigger_key(handled_id))
             /\ ttl' = ttl]_vars

\* (C21, for the record: every entry of the list gets one attempt, in the
\* order of the list, also after a failed attempt; an artifact gets two
\* attempts only when the list names it twice, see C7)
C21_EachEntryOneAttempt ==
    [][ProcessStep
          => LET files == lrange(redis, files_key(handled_id))
             IN  /\ Len(deleteLog') = Len(files)
                 /\ \A i \in DOMAIN files : deleteLog'[i].object_name = files[i]
                 /\ ~exists(redis', files_key(handled_id))
                 /\ ttl' = ttl]_vars

\* C22 as claimed: once the expiry of a job's trigger key was published
\* with nobody subscribed, the file list the job had then and every
\* listed artifact that was stored then exist in every later state.
objects == object_names(unprocessed) \cup object_names(processed)
C22_MissedExpiryLeavesFiles ==
    \A m \in missed :
        m[2] # <<>>
            => /\ exists(redis, files_key(split_last(m[1], ":")))
               /\ \A i \in DOMAIN m[2] : m[2][i] \in m[3] => m[2][i] \in objects

\* C22 as amended: a message is appended to the listener's messages only by
\* an expiry that happens while it is subscribed (none when it is not, none
\* on subscribing again); and a file list without a trigger key and without
\* a message of that key waiting stays as it is, with the artifacts it
\* lists, through every step except a run of _schedule_cleanup for the
\* same job.
pending(key) == \E i \in DOMAIN events : events[i] = key
orphaned(task_id) ==
    /\ exists(redis, files_key(task_id))
    /\ ~exists(redis, cleanup_trigger_key(task_id))
    /\ ~pending(cleanup_trigger_key(task_id))
ScheduleStep(task_id) ==
    pc = "scheduling" /\ request.id = task_id /\ pc' = "returning"
C22_NoReplay ==
    /\ ~listening /\ listening' => events' = <<>>
    /\ ~listening /\ ~listening' => events' = events
    /\ Len(events') > Len(events)
          => /\ listening
             /\ \E key \in {kv[1] : kv \in redis} :
                   /\ ~exists(redis', key)
                   /\ events' = Append(events, key)
C22_OrphanStays ==
    \A id \in TaskIds :
        orphaned(id) /\ ~ScheduleStep(id)
            => /\ exists(redis', files_key(id))
               /\ ~exists(redis', cleanup_trigger_key(id))
               /\ lrange(redis', files_key(id)) = lrange(redis, files_key(id))
               /\ \A name \in listed(id) :
                     name \in objects
                         => name \in object_names(unprocessed')
                                         \cup object_names(processed')
               /\ Len(events') <= Len(events) \/ ~listening
                     \/ events'[Len(events')] # cleanup_trigger_key(id)
C22_MissedExpiryIsNotReplayed == [][C22_NoReplay /\ C22_OrphanStays]_vars

\* C22 witness: an expiry was missed, the listener is subscribed again with
\* nothing to read, the job is done, and its file list and artifacts are
\* still there
C22_Witness ==
    \E id \in returned :
        /\ \E m \in missed : m[1] = cleanup_trigger_key(id) /\ m[2] # <<>>
        /\ listening /\ events = <<>>
        /\ orphaned(id)
        /\ listed(id) # {} /\ listed(id) \subseteq objects
        /\ pc = "idle" /\ Quiescent(id)

\* C23: the shape of a SUCCESS result follows the job's mode.  A
\* speech-to-text job's stored result has the one field transcribed_text and
\* GetResult answers the text with no audio_url; a text-to-speech job's
\* stored result has the one field output_object_name, naming
\* {task_id}.wav, and GetResult answers an audio_url with no
\* transcribed_text.
mode_of(task_id) == {msg.mode : msg \in {m \in sent : m.id = task_id}}
C23_ResultShapeFollowsMode ==
    \A id \in TaskIds :
        successful(store[id])
            => LET result == store[id].result
                   r == get_task_result(store, id, now)
               IN  /\ mode_of(id) \in {{V2T}, {T2V}}
                   /\ r.status = SUCCESS
                   /\ mode_of(id) = {V2T}
                         => /\ DOMAIN result = {"transcribed_text"}
                            /\ r.transcribed_text = result.transcribed_text
                            /\ r.transcribed_text # None
                            /\ r.audio_url = None
                   /\ mode_of(id) = {T2V}
                         => /\ DOMAIN result = {"output_object_name"}
                            /\ result.output_object_name = id \o ".wav"
                            /\ r.audio_url # None
                            /\ contains(r.audio_url, "/" \o id \o ".wav")
                            /\ r.transcribed_text = None

\* C23 witness: a speech-to-text job has succeeded with the text of its
\* upload, and GetResult answers the text
C23_Witness ==
    \E id \in TaskIds :
        /\ successful(store[id])
        /\ mode_of(id) = {V2T}
        /\ get_task_result(store, id, now).transcribed_text = "hello"
        /\ get_task_result(store, id, now).audio_url = None

\* C24: the client's health_check never raises: it returns a boolean, True
\* exactly when GET /health was answered without an HTTP error by a JSON
\* object whose status is "ok", and False for no answer, an HTTP error or
\* any other answer.  The gateway's answer is {status: ok} in every state,
\* whatever the task store, the queue and the buckets hold, and the call
\* changes nothing of the system.
answers_ok(response) ==
    /\ response # NoHttpResponse
    /\ response.status_code \in 200..299
    /\ response.is_json
    /\ response.body # NoResult
    /\ response.body \in {[status |-> "ok"],
                          [status |-> "ok", version |-> "1"]}
C24_ValueIsOkAnswer ==
    /\ \A response \in HealthAnswers :
           /\ client_health_check(response) \in BOOLEAN
           /\ client_health_check(response) <=> answers_ok(response)
    /\ health # NoCall
          => /\ health.value \in BOOLEAN
             /\ health.value <=> answers_ok(health.response)
C24_GatewayAnswersOk ==
    /\ ENABLED HealthCheck(health_check)
    /\ client_health_check(health_check)
HealthStep == health' # health
C24_HealthStepFrame ==
    HealthStep => UNCHANGED <<call, gatewayVars, queue, store, bucketVars,
                              cleanupVars, workerVars, clientVars>>
C24_HealthCheckIsLivenessOnly ==
    [](C24_ValueIsOkAnswer /\ C24_GatewayAnswersOk) /\ [][C24_HealthStepFrame]_vars

\* C24 witness: health_check has returned True on the gateway's answer
\* while a job has failed because its backend could not be reached
C24_Witness ==
    /\ health # NoCall
    /\ health.response = health_check
    /\ health.value = TRUE
    /\ \E id \in returned :
          /\ failed(store[id])
          /\ store[id].result.exc_type = "RequestError"

\* C25: for an answer 200 with a status of TaskStatus, the client's
\* get_task_result returns a result with the requested task id and the
\* status of the answer; it is a TranscriptionResult with the answer's text
\* exactly when the answer's transcribed_text is not null, otherwise a
\* SynthesisResult whose audio_url is the answer's audio_url, with the
\* client's base URL in front when it starts with "/" and unchanged when it
\* does not (an absolute URL, null, the empty string).
relative(url) == url # None /\ Len(url) > 0 /\ SubSeq(url, 1, 1) = "/"
usable(r) == r # NoAnswer /\ r.http = 200 /\ r.status \in {PENDING, SUCCESS, FAILED}
C25_ResultOfAnswer(task_id, r, outcome) ==
    usable(r)
        => /\ outcome.kind = "return"
           /\ outcome.value.task_id = task_id
           /\ outcome.value.status = r.status
           /\ outcome.value.type \in {"TranscriptionResult", "SynthesisResult"}
           /\ outcome.value.type = "TranscriptionResult"
                  <=> r.transcribed_text # None
           /\ outcome.value.type = "TranscriptionResult"
                  => outcome.value.transcribed_text = r.transcribed_text
           /\ outcome.value.type = "SynthesisResult"
                  => outcome.value.audio_url =
                         IF relative(r.audio_url)
                         THEN "http://localhost:8000" \o r.audio_url
                         ELSE r.audio_url
C25_ClientResultFollowsAnswer ==
    call # NoCall /\ call.fn = "get_task_result"
        => C25_ResultOfAnswer(call.task_id, call.response, call.outcome)

\* C25 witness: the answer names another task id than the one asked for and
\* holds a relative URL and no text; the result is a SynthesisResult for
\* the id asked for, with the absolute URL
C25_Witness ==
    /\ call # NoCall /\ call.fn = "get_task_result"
    /\ usable(call.response)
    /\ call.response.task_id # call.task_id
    /\ call.response.transcribed_text = None
    /\ relative(call.response.audio_url)
    /\ call.outcome.value.type = "SynthesisResult"
    /\ call.outcome.value.task_id = call.task_id
    /\ call.outcome.value.audio_url = base_url \o call.response.audio_url

\* C26: for every URL, extract_filename_from_url returns the characters
\* between the last "/" before the first "?" (the start of the URL when
\* there is none) and that first "?" (the end of the URL when there is
\* none), followed by ".wav" exactly when none of these characters is ".".
char(s, i) == SubSeq(s, i, i)
first_question(s) ==
    CHOOSE q \in 1..(Len(s) + 1) :
        /\ q = Len(s) + 1 \/ char(s, q) = "?"
        /\ \A j \in 1..(q - 1) : char(s, j) # "?"
last_slash(s) ==
    CHOOSE l \in 0..(first_question(s) - 1) :
        /\ l = 0 \/ char(s, l) = "/"
        /\ \A j \in (l + 1)..(first_question(s) - 1) : char(s, j) # "/"
segment(s) == SubSeq(s, last_slash(s) + 1, first_question(s) - 1)
dotted(s) == \E j \in (last_slash(s) + 1)..(first_question(s) - 1) : char(s, j) = "."
C26_FilenameOf(url, value) ==
    value = IF dotted(url) THEN segment(url) ELSE segment(url) \o ".wav"
C26_FilenameIsLastSegment ==
    call # NoCall /\ call.fn = "extract_filename_from_url"
        => C26_FilenameOf(call.audio_url, call.value)

\* C26 witness: a URL with a "/" after its first "?" and no "." before it:
\* the name is taken before the "?" and gets ".wav"
C26_Witness ==
    /\ call # NoCall /\ call.fn = "extract_filename_from_url"
    /\ call.audio_url = "/a?/."
    /\ call.value = "a.wav"

\* C27: with every Redis call of _schedule_cleanup succeeding, the trigger
\* key of a job is set before SUCCESS is written: in the state before the
\* write the key exists with its time to live running, or has expired
\* already; and whenever GetResult reports SUCCESS for a job, its trigger
\* key exists or has expired.
trigger_was_set(task_id) ==
    \/ /\ exists(redis, cleanup_trigger_key(task_id))
       /\ \E e \in ttl : e[1] = cleanup_trigger_key(task_id)
    \/ cleanup_trigger_key(task_id) \in expiredKeys
C27_SuccessHasTrigger ==
    \A id \in returned :
        get_task_result(store, id, now).status = SUCCESS => trigger_was_set(id)
C27_SetBeforeWrite ==
    \A id \in TaskIds :
        ~successful(store[id]) /\ successful(store'[id]) => trigger_was_set(id)
C27_TriggerSetBeforeSuccess ==
    []C27_SuccessHasTrigger /\ [][C27_SetBeforeWrite]_vars

\* C27 witness: the trigger key of a job is set and counting while
\* GetResult still reports the job PENDING
C27_Witness ==
    /\ pc = "returning"
    /\ crashes = 0
    /\ exists(redis, cleanup_trigger_key(request.id))
    /\ \E e \in ttl : e[1] = cleanup_trigger_key(request.id)
    /\ get_task_result(store, request.id, now).status = PENDING

\* C28 as claimed: whenever the file list of a job exists, the job's
\* trigger key exists or has expired.
C28_FileListHasTrigger ==
    \A id \in TaskIds :
        exists(redis, files_key(id))
            => \/ exists(redis, cleanup_trigger_key(id))
               \/ cleanup_trigger_key(id) \in expiredKeys

\* C29: an error of Redis in _schedule_cleanup is swallowed.  From
\* "scheduling" the task goes on to return its result whatever Redis does:
\* the step queues nothing (no retry), leaves the task store, the result and
\* the message as they are, and the next step of the task stores SUCCESS
\* with the same result.
C29_EveryOutcomeGoesOn ==
    pc = "scheduling" => \A o \in RedisOutcomes : ENABLED ScheduleCleanup(o)
C29_ScheduleStepFrame ==
    pc = "scheduling" /\ pc' # pc /\ crashes' = crashes
        => /\ pc' = "returning"
           /\ queue' = queue
           /\ store' = store
           /\ final_result' = final_result
           /\ request' = request
C29_ReturnStoresSuccess ==
    pc = "returning" /\ pc' # pc /\ crashes' = crashes
        => /\ successful(store'[request.id])
           /\ store'[request.id].result = final_result
           /\ queue' = queue
C29_SchedulingFailureIsSwallowed ==
    []C29_EveryOutcomeGoesOn
        /\ [][C29_ScheduleStepFrame /\ C29_ReturnStoresSuccess]_vars

\* C29 witness: a job is SUCCESS although neither its file list nor its
\* trigger key was ever written
C29_Witness ==
    \E id \in returned :
        /\ successful(store[id])
        /\ get_task_result(store, id, now).status = SUCCESS
        /\ crashes = 0
        /\ ~exists(redis, files_key(id))
        /\ ~exists(redis, cleanup_trigger_key(id))
        /\ cleanup_trigger_key(id) \notin expiredKeys
        /\ deleteLog = <<>>

\* C30: cleanup of one job touches no other job.  A run of
\* process_cleanup_task(id) issues remove_object only for names listed in
\* files:{id} and deletes only the key files:{id}; for every other task id
\* the stored objects (its upload and its output), its file list, its
\* trigger key and its time to live are the same after the run.
names_of(task_id) ==
    {msg.input_data.input_object_name :
        msg \in {m \in sent : m.id = task_id /\ m.mode = V2T}}
        \cup {output_object_name_of(task_id)}
stored_of(bucket, task_id) == {o \in bucket : o[1] \in names_of(task_id)}
C30_OtherJobUntouched ==
    ProcessStep
        => /\ \A i \in DOMAIN deleteLog' :
                  deleteLog'[i].object_name \in listed(handled_id)
           /\ redis' = delete(redis, files_key(handled_id))
           /\ ttl' = ttl
           /\ \A other \in TaskIds \ {handled_id} :
                  /\ stored_of(unprocessed', other) = stored_of(unprocessed, other)
                  /\ stored_of(processed', other) = stored_of(processed, other)
                  /\ lrange(redis', files_key(other)) = lrange(redis, files_key(other))
                  /\ exists(redis', cleanup_trigger_key(other))
                        = exists(redis, cleanup_trigger_key(other))
C30_CleanupTouchesOneJob == [][C30_OtherJobUntouched]_vars

\* C30 witness: the upload of one job has been deleted by its cleanup while
\* the upload, the file list and the trigger key of another job, submitted
\* with the same file name, are in place
C30_Witness ==
    \E id \in returned, other \in returned :
        /\ id # other
        /\ deleteLog # <<>>
        /\ \A i \in DOMAIN deleteLog :
               deleteLog[i].object_name = id \o "_input.wav" /\ deleteLog[i].ok
        /\ stored_of(unprocessed, id) = {}
        /\ ~exists(redis, files_key(id))
        /\ stored_of(unprocessed, other) = {<<other \o "_input.wav", "RIFF">>}
        /\ listed(other) = {other \o "_input.wav"}
        /\ exists(redis, cleanup_trigger_key(other))

\* C31: the listener reacts only to expired keys that start with
\* "cleanup:".  Handling the expiry of any other key issues no remove_object
\* and changes no bucket and no key of Redis; for a key that starts with
\* "cleanup:" the task id handed to process_cleanup_task is all of the key
\* after its first ":", so the file list read and deleted is the one of
\* that id and the deletes are those of its entries.
remainder(key) == SubSeq(key, 9, Len(key))
C31_OtherKeyStep ==
    ListenStep /\ SubSeq(Head(events), 1, 8) # "cleanup:"
        => /\ UNCHANGED <<redis, bucketVars, deleteLog, ttl>>
C31_CleanupKeyStep ==
    ListenStep /\ SubSeq(Head(events), 1, 8) = "cleanup:"
        => LET task_id == remainder(Head(events))
               files == lrange(redis, "files:" \o task_id)
           IN  /\ redis' = delete(redis, "files:" \o task_id)
               /\ Len(deleteLog') = Len(files)
               /\ \A i \in DOMAIN files : deleteLog'[i].object_name = files[i]
C31_OnlyCleanupKeysAreHandled ==
    [][C31_OtherKeyStep /\ C31_CleanupKeyStep]_vars

\* C31 witness: the expiry of the task meta of a job has been handled while
\* the job's file list and its upload are in place
C31_Witness ==
    \E id \in returned :
        /\ task_meta_key(id) \in expiredKeys
        /\ listening /\ events = <<>>
        /\ store[id] = NoMeta
        /\ deleteLog = <<>>
        /\ listed(id) # {} /\ listed(id) \subseteq objects
        /\ exists(redis, cleanup_trigger_key(id))

\* C32: process_cleanup_task for a task id whose file list is missing or
\* empty does nothing: no remove_object is issued, no bucket and no key of
\* Redis changes.  So a second expiry notification of a job whose cleanup
\* has run changes nothing.
EmptyStep ==
    /\ ListenStep
    /\ startswith(Head(events), "cleanup:")
    /\ lrange(redis, files_key(handled_id)) = <<>>
C32_EmptyListStep ==
    EmptyStep => deleteLog' = <<>> /\ UNCHANGED <<redis, bucketVars, ttl, store>>
C32_CleanupOfEmptyListIsNoOp == [][C32_EmptyListStep]_vars

\* C32 witness: the cleanup of a job ran and deleted its upload, and a
\* second notification for the job has been handled since, issuing no delete
C32_Witness ==
    \E id \in returned :
        /\ cleanup_trigger_key(id) \in expiredKeys
        /\ crashes > 0
        /\ uploaded # {} /\ unprocessed = {}
        /\ ~exists(redis, files_key(id))
        /\ listening /\ events = <<>>
        /\ deleteLog = <<>>

\* C33 as claimed: while a job has attempts left (a message of it is queued,
\* or the worker holds one whose attempt has not ended), GetResult reports
\* PENDING.
attempts_left(task_id) ==
    \/ \E msg \in BagToSet(queue) : msg.id = task_id
    \/ request.id = task_id /\ pc \in {"started", "scheduling", "returning"}
C33_NonTerminalIsPending ==
    \A status \in {"PENDING", "STARTED", "RETRY"}, result \in {NoResult, exception("Exception", "HTTP Error: x")} :
        LET r == get_task_result([id \in TaskIds |-> [status |-> status, result |-> result]], "1", now)
        IN  r.http = 200 /\ r.status = PENDING /\ r.error_message = None
C33_RetryQueuedIsRetry ==
    \A msg \in BagToSet(queue) :
        msg.retries > 0 => store[msg.id].status = "RETRY"
in_flight(task_id) ==
    (IF request.id = task_id /\ pc # "ack" THEN 1 ELSE 0)
        + Cardinality({msg \in BagToSet(queue) : msg.id = task_id})
C34_OneMessagePerJob ==
    /\ \A msg \in BagToSet(queue) : queue[msg] = 1
    /\ \A id \in returned : in_flight(id) <= 1
    /\ \A msg \in messages : msg.retries \in 0..max_retries
C34_RetryCountsUp ==
    /\ FailedAttempt
          => \/ queue' = queue
             \/ /\ request.retries < max_retries
                /\ queue' = queue (+) SetToBag({[request EXCEPT !.retries = request.retries + 1]})
    /\ \A msg \in BagToSet(queue') :
           msg \notin BagToSet(queue)
               => \/ FailedAttempt /\ msg.id = request.id
                  \/ msg.retries = 0 /\ msg.id \notin returned
terminated(task_id) == store[task_id].status \in {"SUCCESS", "FAILURE"}
C34_Terminates ==
    \A id \in TaskIds : (id \in returned) ~> (terminated(id) /\ in_flight(id) = 0)
C34_BoundedRetriesTerminate ==
    []C34_OneMessagePerJob /\ [][C34_RetryCountsUp]_vars /\ C34_Terminates

\* C34 witness: the fourth run of a job has failed and the job is FAILURE
C34_Witness ==
    /\ pc = "ack"
    /\ request.retries = max_retries
    /\ store[request.id].status = "FAILURE"
    /\ store[request.id].result.exc_type = "RequestError"
    /\ \A msg \in BagToSet(queue) : msg.id # request.id

\* C35: a malformed work item (unsupported mode, or input_data without the
\* key its mode reads) never reaches a backend: on every attempt the try
\* block raises ValueError before any request, whatever the backends would
\* answer, and no bucket changes.  The attempt is handled like a transient
\* failure: re-queued with the counter raised while the budget lasts (task
\* state RETRY), task state FAILURE with the ValueError after the last
\* attempt.  No file list and no trigger key is ever written for the job,
\* and it never becomes SUCCESS.
malformed(msg) ==
    \/ msg.mode \notin {V2T, T2V}
    \/ msg.mode = V2T /\ "input_object_name" \notin DOMAIN msg.input_data
    \/ msg.mode = T2V /\ "text" \notin DOMAIN msg.input_data
C35_NoBackendCall ==
    \A msg \in messages :
        malformed(msg)
            => \A o \in Outcomes, bucket \in {unprocessed, {}} :
                   LET body == pipeline_body(msg.id, msg.mode, msg.input_data, bucket, o)
                   IN  /\ body.kind = "raise"
                       /\ body.exc.exc_type = "ValueError"
                       /\ body.response = NoHttpResponse
C35_NoCleanupRecord ==
    \A msg \in sent :
        malformed(msg)
            => /\ ~exists(redis, files_key(msg.id))
               /\ ~exists(redis, cleanup_trigger_key(msg.id))
               /\ cleanup_trigger_key(msg.id) \notin expiredKeys
               /\ ~successful(store[msg.id])
               /\ msg.id \notin {request.id} \/ pc \in {"started", "ack"}
C35_AttemptStep ==
    pc = "started" /\ malformed(request) /\ pc' # pc /\ crashes' = crashes
        => /\ pc' = "ack"
           /\ UNCHANGED <<bucketVars, redis, ttl>>
           /\ store'[request.id].result.exc_type = "ValueError"
           /\ IF request.retries < max_retries
              THEN /\ queue' = queue (+) SetToBag({[request EXCEPT !.retries = request.retries + 1]})
                   /\ store'[request.id].status = "RETRY"
              ELSE /\ queue' = queue
                   /\ store'[request.id].status = "FAILURE"
C35_MalformedItemIsRetriedThenFailed ==
    [](C35_NoBackendCall /\ C35_NoCleanupRecord) /\ [][C35_AttemptStep]_vars

\* C35 witness: the fourth attempt of an item with an unsupported mode has
\* ended, the task is FAILURE with the ValueError
C35_Witness ==
    /\ pc = "ack"
    /\ request.mode = "v2v"
    /\ request.retries = max_retries
    /\ store[request.id].status = "FAILURE"
    /\ store[request.id].result.exc_type = "ValueError"
    /\ redis = {}

\* C36: the poll loops of the client test the elapsed time before every
\* status query.  A query is made only while the time spent is within the
\* timeout, one per iteration; the iteration returns the result on SUCCESS,
\* raises VoiceFlowError on FAILED and otherwise sleeps poll_interval.  When
\* the test fails the loop raises TaskTimeoutError (TimeoutError in
\* poll_for_result) without another query; with a timeout of zero or less
\* it does so without any query, also for a job that is terminal already.
LibraryPollers == {"_poll_transcription_result", "_poll_synthesis_result"}
C36_IterationOfAnswer ==
    \A fn \in LibraryPollers, id \in TaskIds, r \in TaskAnswers :
        usable(r)
            => LET step == poll_iteration(fn, id, r)
               IN  /\ r.status = SUCCESS
                         => step.kind = "return" /\ step.value.status = SUCCESS
                            /\ step.value.task_id = id
                   /\ r.status = FAILED
                         => step.kind = "raise" /\ step.exc_type = "VoiceFlowError"
                   /\ r.status = PENDING => step = PollSleep
C36_Counts ==
    /\ poller.polls <= poller.budget
    /\ poller.queries \in {poller.polls, poller.polls + 1}
    /\ poller.queries = poller.polls + 1 => poller.outcome # NoResult
    /\ \A timeout \in Timeouts :
           timeout <= 0 => iterations_within(timeout) = 0
C36_NoQueryAfterTimeout ==
    poller.fn \in LibraryPollers \cup {"poll_for_result"}
        /\ poller.outcome # NoResult /\ poller.queries = poller.polls
        => /\ poller.polls = poller.budget
           /\ poller.outcome.kind = "raise"
           /\ poller.outcome.exc_type =
                  IF poller.fn \in LibraryPollers
                  THEN "TaskTimeoutError" ELSE "TimeoutError"
QueryStep == poller'.queries = poller.queries + 1
C36_QueryStep ==
    QueryStep
        => /\ running
           /\ poller.polls < poller.budget
           /\ \/ poller'.polls = poller.polls + 1 /\ poller'.outcome = NoResult
              \/ poller'.polls = poller.polls /\ poller'.outcome # NoResult
C36_GiveUpStep ==
    running /\ poller.polls >= poller.budget /\ poller' # poller
        => /\ poller'.queries = poller.queries
           /\ poller'.outcome = poll_timeout(poller.fn, poller.task_id)
C36_TimeIsTestedBeforeQuery ==
    [](C36_IterationOfAnswer /\ C36_Counts /\ C36_NoQueryAfterTimeout)
        /\ [][C36_QueryStep /\ C36_GiveUpStep]_vars

\* C36 witness: a poll with a timeout of zero or less has raised
\* TaskTimeoutError without a query, for a job that is SUCCESS
C36_Witness ==
    /\ poller.fn \in LibraryPollers
    /\ poller.budget = 0
    /\ poller.queries = 0
    /\ poller.outcome # NoResult
    /\ poller.outcome.exc_type = "TaskTimeoutError"
    /\ get_task_result(store, poller.task_id, now).status = SUCCESS

\* C37: in AsyncVoiceFlowClient an error of the status query ends the poll
\* at once: no answer gives VoiceFlowError and an answer that is not 2xx
\* gives APIError, raised by the iteration that made the query, with
\* iterations of the budget left unused; such a poll never ends in
\* TaskTimeoutError, which is raised only when the budget is used up and
\* every query made was answered.  poll_for_result sleeps and goes on after
\* a query without answer.
fetch_error(outcome) ==
    /\ outcome # NoResult
    /\ outcome.kind = "raise"
    /\ outcome.exc_type \in {"APIError", "VoiceFlowError"}
    /\ ~startswith(outcome.message, "Transcription failed")
    /\ ~startswith(outcome.message, "Synthesis failed")
C37_IterationOfError ==
    \A id \in TaskIds :
        /\ \A fn \in LibraryPollers :
              /\ poll_iteration(fn, id, NoAnswer).kind = "raise"
              /\ poll_iteration(fn, id, NoAnswer).exc_type = "VoiceFlowError"
              /\ \A r \in {InternalServerError(id)} \cup
                         {[get_task_result(store, id, now) EXCEPT !.http = 404]} :
                     /\ poll_iteration(fn, id, r).kind = "raise"
                     /\ poll_iteration(fn, id, r).exc_type = "APIError"
        /\ poll_iteration("poll_for_result", id, NoAnswer) = PollSleep
C37_ErrorEndsPoll ==
    poller.fn \in LibraryPollers /\ poller.outcome # NoResult
        => /\ fetch_error(poller.outcome) => poller.queries = poller.polls + 1
           /\ poller.outcome.kind = "raise"
                 /\ poller.outcome.exc_type = "TaskTimeoutError"
                 => poller.queries = poller.polls /\ poller.polls = poller.budget
C37_LibraryQueryStep ==
    QueryStep /\ poller.fn \in LibraryPollers
        => LET r == get_task_result(store, poller.task_id, now)
           IN  /\ r.http # 200 => fetch_error(poller'.outcome)
               /\ poller'.outcome = NoResult => r.http = 200 /\ r.status = PENDING
C37_TestSuiteQueryStep ==
    QueryStep /\ poller.fn = "poll_for_result"
        /\ get_task_result(store, poller.task_id, now).status = SUCCESS
        => \/ poller'.outcome # NoResult /\ poller'.outcome.kind = "return"
           \/ poller'.outcome = NoResult /\ poller'.polls = poller.polls + 1
C37_FetchErrorEndsLibraryPoll ==
    [](C37_IterationOfError /\ C37_ErrorEndsPoll)
        /\ [][C37_LibraryQueryStep /\ C37_TestSuiteQueryStep]_vars

\* C37 witness: the first query of a library poller got an HTTP 500 and the
\* poll has ended with APIError, its budget unused
C37_Witness ==
    /\ poller.fn \in LibraryPollers
    /\ poller.budget = MaxPolls
    /\ poller.polls = 0 /\ poller.queries = 1
    /\ poller.outcome # NoResult
    /\ poller.outcome.exc_type = "APIError"
    /\ get_task_result(store, poller.task_id, now).http = 500

\* C38: the gateway uploads the audio of a transcription before it enqueues
\* the work item, and only the cleanup of the job removes the object: for
\* every transcription job sent the input object was uploaded, it is in the
\* unprocessed bucket as long as the job's trigger key has not expired (so
\* at the first delivery and at every retry before the cleanup), and a step
\* that takes an object out of the unprocessed bucket is a step of the
\* cleanup worker on a trigger key whose file list names the object.
transcriptions ==
    {msg \in sent :
        msg.mode = V2T /\ "input_object_name" \in DOMAIN msg.input_data}
C38_UploadedBeforeEnqueued ==
    \A msg \in transcriptions :
        msg.input_data.input_object_name \in object_names(uploaded)
C38_InputInPlace ==
    \A msg \in transcriptions :
        cleanup_trigger_key(msg.id) \notin expiredKeys
            => msg.input_data.input_object_name \in object_names(unprocessed)
C38_EnqueueStep ==
    \A msg \in sent' \ sent :
        msg.mode = V2T /\ "input_object_name" \in DOMAIN msg.input_data
            => /\ msg.input_data.input_object_name \in object_names(unprocessed')
               /\ msg.input_data.input_object_name \notin object_names(unprocessed)
C38_RemovalStep ==
    \A name \in object_names(unprocessed) \ object_names(unprocessed') :
        /\ ListenStep
        /\ startswith(Head(events), "cleanup:")
        /\ \E i \in 1..Len(lrange(redis, files_key(split_last(Head(events), ":")))) :
              lrange(redis, files_key(split_last(Head(events), ":")))[i] = name
C38_InputStaysUntilCleanup ==
    [](C38_UploadedBeforeEnqueued /\ C38_InputInPlace)
        /\ [][C38_EnqueueStep /\ C38_RemovalStep]_vars

\* C38 witness: the worker has started a retry of a transcription whose
\* trigger key has not expired, and the input object is in the bucket
C38_Witness ==
    /\ pc = "started"
    /\ request \in {retry_message(msg) : msg \in transcriptions}
    /\ request.retries > 0
    /\ cleanup_trigger_key(request.id) \notin expiredKeys
    /\ request.input_data.input_object_name \in object_names(unprocessed)

====
